---- MODULE Spec2Model ----
(***************************************************************************)
(* The alarm scheduler of main/alarm_manager.{h,cc}: the alarm collection, *)
(* its mirror in the "alarms" settings namespace, the trigger / snooze /   *)
(* stop life-cycle and the periodic CheckAlarms tick.                      *)
(*                                                                         *)
(* Every public method is one action (it runs under alarms_mutex_); the    *)
(* methods that release the mutex half-way, Initialize and Cleanup, are    *)
(* also given step by step, for the calls of other threads in between. The *)
(* clocks are the environment: mono is esp_timer_get_time()/1000000, wall  *)
(* is the local time of time()/localtime() in seconds since Sunday 00:00.  *)
(* Once a thread has locked alarms_mutex_ twice the mutex is held for ever:*)
(* a call that locks it blocks, and has no step.                           *)
(***************************************************************************)
EXTENDS Integers, Sequences, FiniteSets, TLC

(***************************************************************************)
(* Bounds of the model.                                                    *)
(***************************************************************************)
\* ids handed out while the alarms run (next_id never exceeds MaxId + 1)
MaxId == 1
\* ids handed out in the specification of the store and its mirror
StoreMaxId == 1
\* number of clock advances of TimeStep seconds
MaxTicks == 4
\* ids handed out in the specification of the ids and the reload
ReloadMaxId == 2
\* ids handed out, and alarms in the store, while Initialize and Cleanup are in flight
ThreadsMaxId == 1
ThreadsMaxAlarms == 2
\* ids handed out in the specification of the queries
QueryMaxId == 1
\* alarms in the stores GetNextAlarmInfo searches
SelectMaxAlarms == 2
\* ids handed out while two alarms ring
RingMaxId == 2
\* ids handed out while the defaults are set
DefaultsMaxId == 2

(***************************************************************************)
(* Enumerations of alarm_manager.h.                                        *)
(***************************************************************************)
kAlarmOnce == 0
kAlarmDaily == 1
kAlarmWeekdays == 2
kAlarmWeekends == 3
kAlarmCustom == 4

kAlarmEnabled == 0
kAlarmDisabled == 1
kAlarmTriggered == 2
kAlarmSnoozed == 3

\* 0b1111111, 0b0111110, 0b1000001 (bit0 = Sunday .. bit6 = Saturday)
MaskDaily == 127
MaskWeekdays == 62
MaskWeekends == 65

\* the defaults set by the constructor
InitialSnoozeMinutes == 5
InitialMaxSnoozeCount == 3
InitialNextId == 1

\* the re-fire guard of CheckAlarms, in seconds
RefireGuardSeconds == 60

(***************************************************************************)
(* The environment: clock and inputs.                                      *)
(***************************************************************************)
SecondsPerMinute == 60
SecondsPerDay == 24 * 60 * SecondsPerMinute
\* the tick of the clock of the model, in seconds
TimeStep == SecondsPerMinute \div 2
\* local time at the first boot: Monday 07:30:00
BootWall == 1 * SecondsPerDay + (7 * 60 + 30) * SecondsPerMinute

\* the arguments the callers pass while the alarms run: <<hour, minute>>
TimeInputs == {<<7, 30>>, <<7, 31>>}
ModeInputs == {kAlarmOnce, kAlarmDaily, kAlarmWeekends}
LabelInputs == {""}
MusicInputs == {""}
IdInputs == 1..(MaxId + 1)
\* the defaults the application has configured before the alarms run
ConfiguredSnoozeMinutes == {1}
ConfiguredMaxSnoozeCount == {0, 2}

\* the arguments the callers pass to the store: <<hour, minute>> on both sides
\* of each of the four range checks
StoreTimeInputs == {<<-1, 0>>, <<24, 59>>, <<0, -1>>, <<23, 60>>, <<0, 59>>, <<23, 0>>}
StoreModeInputs == {kAlarmOnce, kAlarmDaily, kAlarmWeekdays, kAlarmWeekends, kAlarmCustom}
StoreLabelInputs == {"", "wake"}
StoreMusicInputs == {"song"}
StoreIdInputs == 1..(StoreMaxId + 1)
\* the defaults in force when the store is set up: the constructor's, or other ones
StoreDefaults == {<<5, 3>>, <<60, 10>>}
\* the arguments the callers pass in the specification of the ids and the
\* reload; the clock stays in the minute 07:30 of BootWall
ReloadTimeInputs == {<<7, 30>>}
ReloadModeInputs == {kAlarmDaily}
ReloadLabelInputs == {"wake"}
ReloadMusicInputs == {""}
ReloadIdInputs == 1..(ReloadMaxId + 1)
\* the arguments the callers pass in the specification of the snooze budget
BudgetTimeInputs == {<<7, 30>>}
BudgetModeInputs == {kAlarmOnce, kAlarmDaily}
BudgetSnoozeMinutesInputs == {0, 2}
BudgetMaxSnoozeCountInputs == {-1, 1}
\* the arguments the callers pass while Initialize and Cleanup are in flight
ThreadsTimeInputs == {<<7, 30>>}
ThreadsModeInputs == {kAlarmDaily}
ThreadsLabelInputs == {"wake"}
ThreadsMusicInputs == {""}
ThreadsIdInputs == 1..ThreadsMaxId
\* the arguments the callers pass among the queries
QueryTimeInputs == {<<7, 30>>, <<7, 31>>}
QueryModeInputs == {kAlarmOnce, kAlarmDaily}
QueryLabelInputs == {"", "wake"}
QueryMusicInputs == {""}
QueryIdInputs == 1..(QueryMaxId + 1)
\* the stores GetNextAlarmInfo searches: the times, modes and labels of the
\* alarms, and the local times of the search (Sunday 00:00, Monday 07:30,
\* Saturday 08:30)
SelectTimeInputs == {<<0, 0>>, <<7, 30>>, <<8, 30>>}
SelectModeInputs == {kAlarmOnce, kAlarmDaily, kAlarmWeekdays, kAlarmWeekends, kAlarmCustom}
SelectLabelInputs == <<"wake", "">>
SelectWallInputs ==
    {0, BootWall, 6 * SecondsPerDay + (8 * 60 + 30) * SecondsPerMinute}
\* the arguments the callers pass while two alarms ring
RingTimeInputs == {<<7, 30>>}
RingModeInputs == {kAlarmOnce, kAlarmDaily}
RingIdInputs == 1..RingMaxId
\* the arguments the callers pass to ModifyAlarm while two alarms ring
ModifyTimeInputs == {<<7, 31>>}
ModifyModeInputs == {kAlarmWeekdays, kAlarmCustom}
ModifyLabelInputs == {"work"}
\* the arguments of the two setters of the defaults
SnoozeMinutesInputs == {0, 1, 5, 60, 61}
MaxSnoozeCountInputs == {-1, 0, 3, 10, 11}

VARIABLES
    alarms,                     \* alarms_: the AlarmItems in stored order
    next_alarm_id_,
    initialized_,
    default_snooze_minutes_,
    default_max_snooze_count_,
    on_alarm_triggered_,        \* TRUE when a callback is registered
    on_alarm_snoozed_,
    on_alarm_stopped_,
    alarms_mutex_,              \* "unlocked", "locked" by a step of Initialize or Cleanup,
                                \* or "deadlocked" once a thread locked it twice
    storage,                    \* the "alarms" namespace of Settings: key -> value
    mono,                       \* seconds since boot
    wall,                       \* local time, seconds since Sunday 00:00
    last,                       \* the last call: [op, id, returned, ret]
    events,                     \* the callbacks the last call invoked, in order
    pc                          \* the calls in flight on other threads, step by step

vars == <<alarms, next_alarm_id_, initialized_, default_snooze_minutes_,
          default_max_snooze_count_, on_alarm_triggered_, on_alarm_snoozed_,
          on_alarm_stopped_, alarms_mutex_, storage, mono, wall, last, events, pc>>

(***************************************************************************)
(* AlarmItem and its helpers.                                              *)
(***************************************************************************)
\* AlarmItem::AlarmItem()
AlarmItem ==
    [id |-> 0, hour |-> 0, minute |-> 0, repeat_mode |-> kAlarmOnce,
     weekdays_mask |-> 0, status |-> kAlarmEnabled, label |-> "",
     music_name |-> "", snooze_count |-> 0, max_snooze_count |-> 3,
     snooze_minutes |-> 5, last_triggered_time |-> 0, next_snooze_time |-> 0]

Min(a, b) == IF a < b THEN a ELSE b
Max(a, b) == IF a > b THEN a ELSE b

RECURSIVE Pow2(_)
Pow2(n) == IF n = 0 THEN 1 ELSE 2 * Pow2(n - 1)

\* (mask & (1 << weekday)) != 0
BitSet(mask, bit) == (mask \div Pow2(bit)) % 2 = 1

\* AlarmManager::IsWeekdayActive
IsWeekdayActive(alarm, weekday) ==
    IF alarm.repeat_mode = kAlarmOnce THEN TRUE
    ELSE BitSet(alarm.weekdays_mask, weekday)

\* std::find_if(alarms_.begin(), alarms_.end(), id == alarm_id): the 1-based
\* position of the first alarm with this id, 0 for alarms_.end()
RECURSIVE FindFrom(_, _, _)
FindFrom(as, alarm_id, i) ==
    IF i > Len(as) THEN 0
    ELSE IF as[i].id = alarm_id THEN i
    ELSE FindFrom(as, alarm_id, i + 1)

\* a search that settles for the first alarm when the id is not found
FindAlarmOrFirst(as, alarm_id) ==
    IF FindFrom(as, alarm_id, 1) = 0 /\ Len(as) > 0 THEN 1 ELSE FindFrom(as, alarm_id, 1)

\* std::find_if over alarms_: the position of the alarm, 0 for alarms_.end()
FindAlarm(as, alarm_id) == FindFrom(as, alarm_id, 1)

\* the switch on repeat_mode in AddAlarm
AddWeekdaysMask(repeat_mode) ==
    CASE repeat_mode = kAlarmDaily -> MaskDaily
      [] repeat_mode = kAlarmWeekdays -> MaskWeekdays
      [] repeat_mode = kAlarmWeekends -> MaskWeekends
      [] OTHER -> 0

\* a switch whose default clears the mask, as the one in AddAlarm does
ModifyWeekdaysMaskCleared(repeat_mode, old_mask) ==
    CASE repeat_mode = kAlarmDaily -> MaskDaily
      [] repeat_mode = kAlarmWeekdays -> MaskWeekdays
      [] repeat_mode = kAlarmWeekends -> MaskWeekends
      [] OTHER -> 0

\* the switch on repeat_mode in ModifyAlarm
ModifyWeekdaysMask(repeat_mode, old_mask) ==
    CASE repeat_mode = kAlarmDaily -> MaskDaily
      [] repeat_mode = kAlarmWeekdays -> MaskWeekdays
      [] repeat_mode = kAlarmWeekends -> MaskWeekends
      [] OTHER -> old_mask

\* a range check that is off by one at the top of the hour
InvalidTimeHour24(hour, minute) == hour < 0 \/ hour > 24 \/ minute < 0 \/ minute > 59

\* hour < 0 || hour > 23 || minute < 0 || minute > 59
InvalidTime(hour, minute) == hour < 0 \/ hour > 23 \/ minute < 0 \/ minute > 59

(***************************************************************************)
(* The clocks.                                                             *)
(***************************************************************************)
\* AlarmManager::GetCurrentTimeInMinutes: tm_hour * 60 + tm_min
GetCurrentTimeInMinutes(w) == (w % SecondsPerDay) \div SecondsPerMinute

\* AlarmManager::GetCurrentWeekday: tm_wday
GetCurrentWeekday(w) == (w \div SecondsPerDay) % 7

\* a weekday check that lets every alarm pass
ShouldTriggerAnyDay(alarm, w) == TRUE

\* AlarmManager::ShouldTriggerToday
ShouldTriggerToday(alarm, w) ==
    IF alarm.repeat_mode = kAlarmOnce THEN TRUE
    ELSE IsWeekdayActive(alarm, GetCurrentWeekday(w))

(***************************************************************************)
(* Settings: a key/value namespace.  A stored string is the text of a JSON *)
(* object, written as the record of its members; the empty string is       *)
(* EmptyString.                                                            *)
(***************************************************************************)
EmptyString == [chars |-> 0]

GetInt(st, key, default_value) == IF key \in DOMAIN st THEN st[key] ELSE default_value
GetString(st, key) == IF key \in DOMAIN st THEN st[key] ELSE EmptyString
SetKey(st, key, value) ==
    [k \in DOMAIN st \cup {key} |-> IF k = key THEN value ELSE st[k]]

\* "alarm_" + std::to_string(index), index counted from 0
AlarmKey(index) == "alarm_" \o ToString(index)

\* a record without the music member
ToJsonWithoutMusic(alarm) ==
    [id |-> alarm.id, hour |-> alarm.hour, minute |-> alarm.minute,
     repeat |-> alarm.repeat_mode, weekdays |-> alarm.weekdays_mask,
     status |-> alarm.status, label |-> alarm.label,
     snooze_minutes |-> alarm.snooze_minutes, max_snooze |-> alarm.max_snooze_count]

\* the cJSON object SaveAlarmToStorage builds
ToJson(alarm) ==
    [id |-> alarm.id, hour |-> alarm.hour, minute |-> alarm.minute,
     repeat |-> alarm.repeat_mode, weekdays |-> alarm.weekdays_mask,
     status |-> alarm.status, label |-> alarm.label, music |-> alarm.music_name,
     snooze_minutes |-> alarm.snooze_minutes, max_snooze |-> alarm.max_snooze_count]

\* cJSON_Parse succeeds on the text of a JSON object
ParsesAsJson(text) == "chars" \notin DOMAIN text

\* cJSON_GetObjectItem(json, key) ? value : the field's value so far
Member(json, key, otherwise) == IF key \in DOMAIN json THEN json[key] ELSE otherwise

\* a load that takes the record as it is, status and all
FromJsonKeepingStatus(json) ==
    [id |-> Member(json, "id", AlarmItem.id),
     hour |-> Member(json, "hour", AlarmItem.hour),
     minute |-> Member(json, "minute", AlarmItem.minute),
     repeat_mode |-> Member(json, "repeat", AlarmItem.repeat_mode),
     weekdays_mask |-> Member(json, "weekdays", AlarmItem.weekdays_mask) % 256,
     status |-> Member(json, "status", AlarmItem.status),
     label |-> Member(json, "label", AlarmItem.label),
     music_name |-> Member(json, "music", AlarmItem.music_name),
     snooze_count |-> 0,
     max_snooze_count |-> Member(json, "max_snooze", AlarmItem.max_snooze_count),
     snooze_minutes |-> Member(json, "snooze_minutes", AlarmItem.snooze_minutes),
     last_triggered_time |-> 0,
     next_snooze_time |-> 0]

\* the body of the loop of LoadAlarmsFromStorage: the members present overwrite
\* a fresh AlarmItem, then the run-time state is reset
FromJson(json) ==
    LET status == Member(json, "status", AlarmItem.status)
    IN  [id |-> Member(json, "id", AlarmItem.id),
         hour |-> Member(json, "hour", AlarmItem.hour),
         minute |-> Member(json, "minute", AlarmItem.minute),
         repeat_mode |-> Member(json, "repeat", AlarmItem.repeat_mode),
         weekdays_mask |-> Member(json, "weekdays", AlarmItem.weekdays_mask) % 256,
         status |-> IF status = kAlarmTriggered \/ status = kAlarmSnoozed
                    THEN kAlarmEnabled ELSE status,
         label |-> Member(json, "label", AlarmItem.label),
         music_name |-> Member(json, "music", AlarmItem.music_name),
         snooze_count |-> 0,
         max_snooze_count |-> Member(json, "max_snooze", AlarmItem.max_snooze_count),
         snooze_minutes |-> Member(json, "snooze_minutes", AlarmItem.snooze_minutes),
         last_triggered_time |-> 0,
         next_snooze_time |-> 0]

\* AlarmManager::SaveAlarmToStorage: the record goes to the slot of the first
\* alarm of alarms_ with the same id
SaveAlarmToStorage(st, as, alarm) ==
    LET it == FindAlarm(as, alarm.id)
    IN  IF it # 0 THEN SetKey(st, AlarmKey(it - 1), ToJson(alarm)) ELSE st

\* the loop of SaveAlarmsToStorage from position i on
RECURSIVE SaveFrom(_, _, _)
SaveFrom(st, as, i) ==
    IF i > Len(as) THEN st
    ELSE SaveFrom(SaveAlarmToStorage(st, as, as[i]), as, i + 1)

\* AlarmManager::SaveAlarmsToStorage
SaveAlarmsToStorage(st, as) == SaveFrom(SetKey(st, "count", Len(as)), as, 1)

\* a load that gives up at the first record it cannot use
RECURSIVE LoadFromUntilDamage(_, _, _)
LoadFromUntilDamage(st, i, alarm_count) ==
    IF i >= alarm_count THEN <<>>
    ELSE LET alarm_json == GetString(st, AlarmKey(i))
         IN  IF alarm_json = EmptyString \/ ~ParsesAsJson(alarm_json)
             THEN <<>>
             ELSE <<FromJson(alarm_json)>> \o LoadFromUntilDamage(st, i + 1, alarm_count)

\* the loop of LoadAlarmsFromStorage from index i on
RECURSIVE LoadFrom(_, _, _)
LoadFrom(st, i, alarm_count) ==
    IF i >= alarm_count THEN <<>>
    ELSE LET alarm_json == GetString(st, AlarmKey(i))
         IN  IF alarm_json = EmptyString \/ ~ParsesAsJson(alarm_json)
             THEN LoadFrom(st, i + 1, alarm_count)
             ELSE <<FromJson(alarm_json)>> \o LoadFrom(st, i + 1, alarm_count)

\* AlarmManager::LoadAlarmsFromStorage
LoadAlarmsFromStorage(st) == LoadFrom(st, 0, GetInt(st, "count", 0))

(***************************************************************************)
(* The transitions of one alarm.                                           *)
(***************************************************************************)
\* a stop that re-arms every alarm, a Once alarm too
StopTransitionRearming(alarm) ==
    [alarm EXCEPT !.status = kAlarmEnabled,
                  !.snooze_count = 0,
                  !.next_snooze_time = 0]

\* StopAlarm / StopAllActiveAlarms: the three assignments
StopTransition(alarm) ==
    [alarm EXCEPT !.status = IF alarm.repeat_mode = kAlarmOnce
                             THEN kAlarmDisabled ELSE kAlarmEnabled,
                  !.snooze_count = 0,
                  !.next_snooze_time = 0]

\* a snooze whose deadline counts snooze_minutes as seconds
SnoozeTransitionInSeconds(alarm, now_seconds) ==
    [alarm EXCEPT !.status = kAlarmSnoozed,
                  !.snooze_count = alarm.snooze_count + 1,
                  !.next_snooze_time = now_seconds + alarm.snooze_minutes]

\* SnoozeAlarm below the ceiling
SnoozeTransition(alarm, now_seconds) ==
    [alarm EXCEPT !.status = kAlarmSnoozed,
                  !.snooze_count = alarm.snooze_count + 1,
                  !.next_snooze_time = now_seconds + alarm.snooze_minutes * 60]

\* a ceiling test that lets one snooze too many through
UnderCeilingInclusive(alarm) == alarm.snooze_count <= alarm.max_snooze_count

\* SnoozeAlarm: snooze_count < max_snooze_count
UnderCeiling(alarm) == alarm.snooze_count < alarm.max_snooze_count

\* a test that takes only the ringing alarms for active
IsTriggeredOnly(alarm) == alarm.status = kAlarmTriggered

\* StopAlarm: status == kAlarmTriggered || status == kAlarmSnoozed
IsActive(alarm) == alarm.status = kAlarmTriggered \/ alarm.status = kAlarmSnoozed

\* EnableAlarm: the assignment to status
EnableTransition(alarm, enabled) ==
    [alarm EXCEPT !.status = IF enabled THEN kAlarmEnabled ELSE kAlarmDisabled]

\* a modification that also re-arms the alarm
ModifyTransitionRearming(alarm, hour, minute, repeat_mode, label, music_name) ==
    [alarm EXCEPT !.hour = hour, !.minute = minute, !.repeat_mode = repeat_mode,
                  !.label = label, !.music_name = music_name,
                  !.weekdays_mask = ModifyWeekdaysMask(repeat_mode, alarm.weekdays_mask),
                  !.status = kAlarmEnabled, !.snooze_count = 0]

\* ModifyAlarm: the assignments to the alarm found
ModifyTransition(alarm, hour, minute, repeat_mode, label, music_name) ==
    [alarm EXCEPT !.hour = hour, !.minute = minute, !.repeat_mode = repeat_mode,
                  !.label = label, !.music_name = music_name,
                  !.weekdays_mask = ModifyWeekdaysMask(repeat_mode, alarm.weekdays_mask)]

\* an AlarmItem that keeps the snooze settings of its constructor
NewAlarmWithoutDefaults(id, hour, minute, repeat_mode, label, music_name, snooze_minutes, max_snooze) ==
    [AlarmItem EXCEPT !.id = id, !.hour = hour, !.minute = minute,
                      !.repeat_mode = repeat_mode, !.label = label,
                      !.music_name = music_name, !.status = kAlarmEnabled,
                      !.weekdays_mask = AddWeekdaysMask(repeat_mode)]

\* AddAlarm: the AlarmItem it builds
NewAlarm(id, hour, minute, repeat_mode, label, music_name, snooze_minutes, max_snooze) ==
    [AlarmItem EXCEPT !.id = id, !.hour = hour, !.minute = minute,
                      !.repeat_mode = repeat_mode, !.label = label,
                      !.music_name = music_name, !.status = kAlarmEnabled,
                      !.snooze_minutes = snooze_minutes,
                      !.max_snooze_count = max_snooze,
                      !.weekdays_mask = AddWeekdaysMask(repeat_mode)]

\* a snooze that runs out only after its deadline
SnoozeExpiredLate(alarm, now_seconds) ==
    alarm.status = kAlarmSnoozed /\ now_seconds > alarm.next_snooze_time

\* CheckAlarms: the snooze of this alarm has run out
SnoozeExpired(alarm, now_seconds) ==
    alarm.status = kAlarmSnoozed /\ now_seconds >= alarm.next_snooze_time

\* CheckAlarms: the re-fire guard skips this alarm
RefireGuard(alarm, now_seconds) ==
    alarm.last_triggered_time > 0
    /\ now_seconds - alarm.last_triggered_time < RefireGuardSeconds

\* a fire check that lets a Disabled alarm pass
ShouldFireDisabledToo(alarm, now_seconds, w) ==
    /\ alarm.status \in {kAlarmEnabled, kAlarmDisabled}
    /\ alarm.hour * 60 + alarm.minute = GetCurrentTimeInMinutes(w)
    /\ ShouldTriggerToday(alarm, w)
    /\ ~RefireGuard(alarm, now_seconds)

\* a fire check that does not look at the status
ShouldFireAnyStatus(alarm, now_seconds, w) ==
    /\ alarm.hour * 60 + alarm.minute = GetCurrentTimeInMinutes(w)
    /\ ShouldTriggerToday(alarm, w)
    /\ ~RefireGuard(alarm, now_seconds)

\* CheckAlarms: the normal fire check passes
ShouldFire(alarm, now_seconds, w) ==
    /\ alarm.status = kAlarmEnabled
    /\ alarm.hour * 60 + alarm.minute = GetCurrentTimeInMinutes(w)
    /\ ShouldTriggerToday(alarm, w)
    /\ ~RefireGuard(alarm, now_seconds)

\* a loop body whose snooze expiry gives the snoozes back
CheckAlarmResettingCount(alarm, now_seconds, w) ==
    IF SnoozeExpired(alarm, now_seconds)
    THEN [alarm EXCEPT !.status = kAlarmTriggered, !.next_snooze_time = 0,
                       !.snooze_count = 0]
    ELSE IF ShouldFire(alarm, now_seconds, w)
    THEN [alarm EXCEPT !.status = kAlarmTriggered,
                       !.last_triggered_time = now_seconds,
                       !.snooze_count = 0]
    ELSE alarm

\* CheckAlarms: the body of the loop, for one alarm
CheckAlarm(alarm, now_seconds, w) ==
    IF SnoozeExpired(alarm, now_seconds)
    THEN [alarm EXCEPT !.status = kAlarmTriggered, !.next_snooze_time = 0]
    ELSE IF ShouldFire(alarm, now_seconds, w)
    THEN [alarm EXCEPT !.status = kAlarmTriggered,
                       !.last_triggered_time = now_seconds,
                       !.snooze_count = 0]
    ELSE alarm

\* CheckAlarms: on_alarm_triggered_ is invoked for this alarm
Fires(alarm, now_seconds, w) ==
    SnoozeExpired(alarm, now_seconds) \/ ShouldFire(alarm, now_seconds, w)

\* if (on_alarm_xxx_) on_alarm_xxx_(alarm)
Emit(registered, cb, alarm) ==
    IF registered THEN <<[cb |-> cb, alarm |-> alarm]>> ELSE <<>>

\* a clamp without its upper end
ClampSnoozeMinutesFromBelow(minutes) == Max(1, minutes)

\* SetDefaultSnoozeMinutes / SetDefaultMaxSnoozeCount: the clamps
ClampSnoozeMinutes(minutes) == Max(1, Min(60, minutes))
ClampMaxSnoozeCount(count) == Max(0, Min(10, count))

\* what a call reports: `returned` is FALSE when the call never comes back
Returned(op, id, ret) == [op |-> op, id |-> id, returned |-> TRUE, ret |-> ret]
Hung(op, id) == [op |-> op, id |-> id, returned |-> FALSE, ret |-> 0]

Unlocked == alarms_mutex_ = "unlocked"

\* a bool result as the model records it
BoolRet(b) == IF b THEN 1 ELSE 0

\* the alarms with the one at position it replaced
Replace(as, it, alarm) == [as EXCEPT ![it] = alarm]

\* alarms_.erase(it)
Erase(as, it) == SubSeq(as, 1, it - 1) \o SubSeq(as, it + 1, Len(as))

\* CheckAlarms: the alarms after the loop
RECURSIVE CheckFrom(_, _, _, _)
CheckFrom(as, i, now_seconds, w) ==
    IF i > Len(as) THEN <<>>
    ELSE <<CheckAlarm(as[i], now_seconds, w)>> \o CheckFrom(as, i + 1, now_seconds, w)

\* calls of on_alarm_triggered_ that pass the alarm as it was before the loop
RECURSIVE TriggeredFromBefore(_, _, _, _, _)
TriggeredFromBefore(as, i, now_seconds, w, registered) ==
    IF i > Len(as) THEN <<>>
    ELSE (IF Fires(as[i], now_seconds, w)
          THEN Emit(registered, "triggered", as[i])
          ELSE <<>>)
         \o TriggeredFromBefore(as, i + 1, now_seconds, w, registered)

\* CheckAlarms: the calls of on_alarm_triggered_, in the order of the loop
RECURSIVE TriggeredFrom(_, _, _, _, _)
TriggeredFrom(as, i, now_seconds, w, registered) ==
    IF i > Len(as) THEN <<>>
    ELSE (IF Fires(as[i], now_seconds, w)
          THEN Emit(registered, "triggered", CheckAlarm(as[i], now_seconds, w))
          ELSE <<>>)
         \o TriggeredFrom(as, i + 1, now_seconds, w, registered)

\* StopAllActiveAlarms: the alarms after the loop
RECURSIVE StopAllFrom(_, _)
StopAllFrom(as, i) ==
    IF i > Len(as) THEN <<>>
    ELSE <<IF IsActive(as[i]) THEN StopTransition(as[i]) ELSE as[i]>>
         \o StopAllFrom(as, i + 1)

\* StopAllActiveAlarms: the calls of on_alarm_stopped_, in the order of the loop
RECURSIVE StoppedFrom(_, _, _)
StoppedFrom(as, i, registered) ==
    IF i > Len(as) THEN <<>>
    ELSE (IF IsActive(as[i])
          THEN Emit(registered, "stopped", StopTransition(as[i]))
          ELSE <<>>)
         \o StoppedFrom(as, i + 1, registered)

(***************************************************************************)
(* The state after construction, on a device with an empty namespace.      *)
(***************************************************************************)
NoKeys == [k \in {} |-> 0]

\* no thread is inside Initialize, Cleanup or CheckAlarms; next_id is the value
\* a thread inside Initialize has read from the namespace, current_time_seconds
\* and current_time_minutes are the locals a thread inside CheckAlarms has set
NoCallInFlight ==
    [Initialize |-> "idle", Cleanup |-> "idle", next_id |-> 0,
     CheckAlarms |-> "idle", current_time_seconds |-> 0, current_time_minutes |-> 0]

Init ==
    /\ alarms = <<>>
    /\ next_alarm_id_ = InitialNextId
    /\ initialized_ = FALSE
    /\ default_snooze_minutes_ = InitialSnoozeMinutes
    /\ default_max_snooze_count_ = InitialMaxSnoozeCount
    /\ on_alarm_triggered_ = FALSE
    /\ on_alarm_snoozed_ = FALSE
    /\ on_alarm_stopped_ = FALSE
    /\ alarms_mutex_ = "unlocked"
    /\ storage = NoKeys
    /\ mono = 0
    /\ wall = BootWall
    /\ last = Returned("constructor", 0, 0)
    /\ events = <<>>
    /\ pc = NoCallInFlight

config == <<default_snooze_minutes_, default_max_snooze_count_>>
callbacks == <<on_alarm_triggered_, on_alarm_snoozed_, on_alarm_stopped_>>
clock == <<mono, wall>>

(***************************************************************************)
(* Initialize and Cleanup.                                                 *)
(***************************************************************************)
\* an Initialize that starts the id counter afresh
InitializeCountingAfresh ==
    /\ events' = <<>>
    /\ last' = Returned("Initialize", 0, 0)
    /\ IF initialized_
       THEN UNCHANGED <<alarms, next_alarm_id_, initialized_, alarms_mutex_, storage>>
       ELSE /\ Unlocked
            /\ alarms' = LoadAlarmsFromStorage(storage)
            /\ next_alarm_id_' = InitialNextId
            /\ initialized_' = TRUE
            /\ UNCHANGED <<alarms_mutex_, storage>>
    /\ UNCHANGED <<config, callbacks, clock>>

Initialize ==
    /\ events' = <<>>
    /\ last' = Returned("Initialize", 0, 0)
    /\ IF initialized_
       THEN UNCHANGED <<alarms, next_alarm_id_, initialized_, alarms_mutex_, storage>>
       ELSE /\ Unlocked
            /\ alarms' = LoadAlarmsFromStorage(storage)
            /\ next_alarm_id_' = GetInt(storage, "next_id", 1)
            /\ initialized_' = TRUE
            /\ UNCHANGED <<alarms_mutex_, storage>>
    /\ UNCHANGED <<config, callbacks, clock>>

Cleanup ==
    /\ last' = Returned("Cleanup", 0, 0)
    /\ IF ~initialized_
       THEN /\ events' = <<>>
            /\ UNCHANGED <<alarms, initialized_, storage>>
       ELSE /\ Unlocked
            /\ events' = StoppedFrom(alarms, 1, on_alarm_stopped_)
            /\ storage' = SaveAlarmsToStorage(storage, StopAllFrom(alarms, 1))
            /\ alarms' = <<>>
            /\ initialized_' = FALSE
    /\ UNCHANGED <<next_alarm_id_, alarms_mutex_, config, callbacks, clock>>

(***************************************************************************)
(* Initialize and Cleanup as another thread runs them: one step for each   *)
(* statement, with the calls of other threads in between.  A lock_guard    *)
(* is two steps: the constructor takes alarms_mutex_, the end of the       *)
(* block gives it back.                                                    *)
(***************************************************************************)
\* everything but the collection, the counter, the flag, the mutex, the
\* namespace and the record of calls
StepFrame == UNCHANGED <<config, callbacks, clock>>

\* if (initialized_) return;
InitializeEnter ==
    /\ pc.Initialize = "idle"
    /\ IF initialized_
       THEN /\ last' = Returned("Initialize", 0, 0)
            /\ events' = <<>>
            /\ UNCHANGED pc
       ELSE /\ pc' = [pc EXCEPT !.Initialize = "load"]
            /\ UNCHANGED <<last, events>>
    /\ UNCHANGED <<alarms, next_alarm_id_, initialized_, alarms_mutex_, storage>>
    /\ StepFrame

\* LoadAlarmsFromStorage: std::lock_guard<std::mutex> lock(alarms_mutex_)
InitializeLock ==
    /\ pc.Initialize = "load"
    /\ Unlocked
    /\ alarms_mutex_' = "locked"
    /\ pc' = [pc EXCEPT !.Initialize = "load_locked"]
    /\ UNCHANGED <<alarms, next_alarm_id_, initialized_, storage, last, events>>
    /\ StepFrame

\* LoadAlarmsFromStorage: the body, to the end of the guarded block
InitializeLoad ==
    /\ pc.Initialize = "load_locked"
    /\ alarms' = LoadAlarmsFromStorage(storage)
    /\ alarms_mutex_' = "unlocked"
    /\ pc' = [pc EXCEPT !.Initialize = "read"]
    /\ UNCHANGED <<next_alarm_id_, initialized_, storage, last, events>>
    /\ StepFrame

\* settings_->GetInt("next_id", 1), the right-hand side of the assignment
InitializeReadNextId ==
    /\ pc.Initialize = "read"
    /\ pc' = [pc EXCEPT !.Initialize = "write", !.next_id = GetInt(storage, "next_id", 1)]
    /\ UNCHANGED <<alarms, next_alarm_id_, initialized_, alarms_mutex_, storage, last, events>>
    /\ StepFrame

\* next_alarm_id_ = ...: the store, with no lock_guard in scope
InitializeWriteNextId ==
    /\ pc.Initialize = "write"
    /\ next_alarm_id_' = pc.next_id
    /\ pc' = [pc EXCEPT !.Initialize = "finish", !.next_id = 0]
    /\ UNCHANGED <<alarms, initialized_, alarms_mutex_, storage, last, events>>
    /\ StepFrame

\* initialized_ = true; and the return
InitializeFinish ==
    /\ pc.Initialize = "finish"
    /\ initialized_' = TRUE
    /\ pc' = [pc EXCEPT !.Initialize = "idle"]
    /\ last' = Returned("Initialize", 0, 0)
    /\ events' = <<>>
    /\ UNCHANGED <<alarms, next_alarm_id_, alarms_mutex_, storage>>
    /\ StepFrame

\* if (!initialized_) return;
CleanupEnter ==
    /\ pc.Cleanup = "idle"
    /\ IF ~initialized_
       THEN /\ last' = Returned("Cleanup", 0, 0)
            /\ events' = <<>>
            /\ UNCHANGED pc
       ELSE /\ pc' = [pc EXCEPT !.Cleanup = "stop"]
            /\ UNCHANGED <<last, events>>
    /\ UNCHANGED <<alarms, next_alarm_id_, initialized_, alarms_mutex_, storage>>
    /\ StepFrame

\* the lock_guard of StopAllActiveAlarms, of SaveAlarmsToStorage and of the
\* block around alarms_.clear()
CleanupLock ==
    /\ pc.Cleanup \in {"stop", "save", "clear"}
    /\ Unlocked
    /\ alarms_mutex_' = "locked"
    /\ pc' = [pc EXCEPT !.Cleanup = IF pc.Cleanup = "stop" THEN "stop_locked"
                                    ELSE IF pc.Cleanup = "save" THEN "save_locked"
                                    ELSE "clear_locked"]
    /\ UNCHANGED <<alarms, next_alarm_id_, initialized_, storage, last, events>>
    /\ StepFrame

\* StopAllActiveAlarms(): the loop, to the end of the guarded block
CleanupStopAll ==
    /\ pc.Cleanup = "stop_locked"
    /\ alarms' = StopAllFrom(alarms, 1)
    /\ events' = StoppedFrom(alarms, 1, on_alarm_stopped_)
    /\ alarms_mutex_' = "unlocked"
    /\ pc' = [pc EXCEPT !.Cleanup = "save"]
    /\ UNCHANGED <<next_alarm_id_, initialized_, storage, last>>
    /\ StepFrame

\* SaveAlarmsToStorage(): the count and the records, to the end of the block
CleanupSave ==
    /\ pc.Cleanup = "save_locked"
    /\ storage' = SaveAlarmsToStorage(storage, alarms)
    /\ alarms_mutex_' = "unlocked"
    /\ pc' = [pc EXCEPT !.Cleanup = "clear"]
    /\ UNCHANGED <<alarms, next_alarm_id_, initialized_, last, events>>
    /\ StepFrame

\* { lock_guard; alarms_.clear(); }
CleanupClear ==
    /\ pc.Cleanup = "clear_locked"
    /\ alarms' = <<>>
    /\ alarms_mutex_' = "unlocked"
    /\ pc' = [pc EXCEPT !.Cleanup = "finish"]
    /\ UNCHANGED <<next_alarm_id_, initialized_, storage, last, events>>
    /\ StepFrame

\* settings_.reset(); initialized_ = false; and the return
CleanupFinish ==
    /\ pc.Cleanup = "finish"
    /\ initialized_' = FALSE
    /\ pc' = [pc EXCEPT !.Cleanup = "idle"]
    /\ last' = Returned("Cleanup", 0, 0)
    /\ UNCHANGED <<alarms, next_alarm_id_, alarms_mutex_, storage, events>>
    /\ StepFrame

(***************************************************************************)
(* The alarm management calls.                                             *)
(***************************************************************************)
\* an AddAlarm that does not test initialized_
AddAlarmWithoutInitCheck(hour, minute, repeat_mode, label, music_name) ==
    /\ events' = <<>>
    /\ IF InvalidTime(hour, minute)
       THEN /\ last' = Returned("AddAlarm", 0, -1)
            /\ UNCHANGED <<alarms, next_alarm_id_, storage>>
       ELSE /\ Unlocked
            /\ LET alarm == NewAlarm(next_alarm_id_, hour, minute, repeat_mode, label,
                                     music_name, default_snooze_minutes_,
                                     default_max_snooze_count_)
                   pushed == Append(alarms, alarm)
               IN  /\ alarms' = pushed
                   /\ next_alarm_id_' = next_alarm_id_ + 1
                   /\ storage' = SetKey(SaveAlarmToStorage(storage, pushed, alarm),
                                        "next_id", next_alarm_id_ + 1)
                   /\ last' = Returned("AddAlarm", alarm.id, alarm.id)
    /\ UNCHANGED <<initialized_, alarms_mutex_, config, callbacks, clock>>

AddAlarm(hour, minute, repeat_mode, label, music_name) ==
    /\ events' = <<>>
    /\ IF ~initialized_ \/ InvalidTime(hour, minute)
       THEN /\ last' = Returned("AddAlarm", 0, -1)
            /\ UNCHANGED <<alarms, next_alarm_id_, storage>>
       ELSE /\ Unlocked
            /\ LET alarm == NewAlarm(next_alarm_id_, hour, minute, repeat_mode, label,
                                     music_name, default_snooze_minutes_,
                                     default_max_snooze_count_)
                   pushed == Append(alarms, alarm)
               IN  /\ alarms' = pushed
                   /\ next_alarm_id_' = next_alarm_id_ + 1
                   /\ storage' = SetKey(SaveAlarmToStorage(storage, pushed, alarm),
                                        "next_id", next_alarm_id_ + 1)
                   /\ last' = Returned("AddAlarm", alarm.id, alarm.id)
    /\ UNCHANGED <<initialized_, alarms_mutex_, config, callbacks, clock>>

\* RemoveAlarm erases the alarm and then, still holding alarms_mutex_, calls
\* RemoveAlarmFromStorage -> SaveAlarmsToStorage, which locks alarms_mutex_ again.
\* Locking a std::mutex the thread already owns is undefined: the thread blocks
\* for ever (a pthread mutex), or the lock is a no-op and the save goes through.
RemoveAlarm(alarm_id) ==
    /\ events' = <<>>
    /\ LET it == FindAlarm(alarms, alarm_id)
       IN  IF ~initialized_
           THEN /\ last' = Returned("RemoveAlarm", alarm_id, BoolRet(FALSE))
                /\ UNCHANGED <<alarms, storage, alarms_mutex_>>
           ELSE /\ Unlocked
                /\ IF it = 0
                   THEN /\ last' = Returned("RemoveAlarm", alarm_id, BoolRet(FALSE))
                        /\ UNCHANGED <<alarms, storage, alarms_mutex_>>
                   ELSE /\ alarms' = Erase(alarms, it)
                        /\ \/ /\ alarms_mutex_' = "deadlocked"
                              /\ last' = Hung("RemoveAlarm", alarm_id)
                              /\ UNCHANGED storage
                           \/ /\ storage' = SaveAlarmsToStorage(storage, Erase(alarms, it))
                              /\ last' = Returned("RemoveAlarm", alarm_id, BoolRet(TRUE))
                              /\ UNCHANGED alarms_mutex_
    /\ UNCHANGED <<next_alarm_id_, initialized_, config, callbacks, clock>>

EnableAlarm(alarm_id, enabled) ==
    /\ events' = <<>>
    /\ LET it == FindAlarm(alarms, alarm_id)
       IN  IF ~initialized_
           THEN /\ last' = Returned("EnableAlarm", alarm_id, BoolRet(FALSE))
                /\ UNCHANGED <<alarms, storage>>
           ELSE /\ Unlocked
                /\ IF it = 0
                   THEN /\ last' = Returned("EnableAlarm", alarm_id, BoolRet(FALSE))
                        /\ UNCHANGED <<alarms, storage>>
                   ELSE LET alarm == EnableTransition(alarms[it], enabled)
                        IN  /\ alarms' = Replace(alarms, it, alarm)
                            /\ storage' = SaveAlarmToStorage(storage, alarms', alarm)
                            /\ last' = Returned("EnableAlarm", alarm_id, BoolRet(TRUE))
    /\ UNCHANGED <<next_alarm_id_, initialized_, alarms_mutex_, config, callbacks, clock>>

ModifyAlarm(alarm_id, hour, minute, repeat_mode, label, music_name) ==
    /\ events' = <<>>
    /\ LET it == FindAlarm(alarms, alarm_id)
       IN  IF ~initialized_ \/ InvalidTime(hour, minute)
           THEN /\ last' = Returned("ModifyAlarm", alarm_id, BoolRet(FALSE))
                /\ UNCHANGED <<alarms, storage>>
           ELSE /\ Unlocked
                /\ IF it = 0
                   THEN /\ last' = Returned("ModifyAlarm", alarm_id, BoolRet(FALSE))
                        /\ UNCHANGED <<alarms, storage>>
                   ELSE LET alarm == ModifyTransition(alarms[it], hour, minute,
                                                      repeat_mode, label, music_name)
                        IN  /\ alarms' = Replace(alarms, it, alarm)
                            /\ storage' = SaveAlarmToStorage(storage, alarms', alarm)
                            /\ last' = Returned("ModifyAlarm", alarm_id, BoolRet(TRUE))
    /\ UNCHANGED <<next_alarm_id_, initialized_, alarms_mutex_, config, callbacks, clock>>

(***************************************************************************)
(* Snooze and stop.                                                        *)
(***************************************************************************)
\* At the ceiling SnoozeAlarm calls StopAlarm while it holds alarms_mutex_, and
\* StopAlarm locks alarms_mutex_ again: undefined, as in RemoveAlarm.
SnoozeAlarm(alarm_id) ==
    /\ LET it == FindAlarm(alarms, alarm_id)
       IN  IF ~initialized_
           THEN /\ last' = Returned("SnoozeAlarm", alarm_id, BoolRet(FALSE))
                /\ events' = <<>>
                /\ UNCHANGED <<alarms, alarms_mutex_>>
           ELSE /\ Unlocked
                /\ IF it = 0 \/ alarms[IF it = 0 THEN 1 ELSE it].status # kAlarmTriggered
                   THEN /\ last' = Returned("SnoozeAlarm", alarm_id, BoolRet(FALSE))
                        /\ events' = <<>>
                        /\ UNCHANGED <<alarms, alarms_mutex_>>
                   ELSE IF UnderCeiling(alarms[it])
                   THEN LET alarm == SnoozeTransition(alarms[it], mono)
                        IN  /\ alarms' = Replace(alarms, it, alarm)
                            /\ events' = Emit(on_alarm_snoozed_, "snoozed", alarm)
                            /\ last' = Returned("SnoozeAlarm", alarm_id, BoolRet(TRUE))
                            /\ UNCHANGED alarms_mutex_
                   ELSE \/ /\ alarms_mutex_' = "deadlocked"
                           /\ last' = Hung("SnoozeAlarm", alarm_id)
                           /\ events' = <<>>
                           /\ UNCHANGED alarms
                        \/ LET alarm == StopTransition(alarms[it])
                           IN  /\ alarms' = Replace(alarms, it, alarm)
                               /\ events' = Emit(on_alarm_stopped_, "stopped", alarm)
                               /\ last' = Returned("SnoozeAlarm", alarm_id, BoolRet(FALSE))
                               /\ UNCHANGED alarms_mutex_
    /\ UNCHANGED <<next_alarm_id_, initialized_, storage, config, callbacks, clock>>

StopAlarm(alarm_id) ==
    /\ LET it == FindAlarm(alarms, alarm_id)
       IN  IF ~initialized_
           THEN /\ last' = Returned("StopAlarm", alarm_id, BoolRet(FALSE))
                /\ events' = <<>>
                /\ UNCHANGED alarms
           ELSE /\ Unlocked
                /\ IF it = 0 \/ ~IsActive(alarms[IF it = 0 THEN 1 ELSE it])
                   THEN /\ last' = Returned("StopAlarm", alarm_id, BoolRet(FALSE))
                        /\ events' = <<>>
                        /\ UNCHANGED alarms
                   ELSE LET alarm == StopTransition(alarms[it])
                        IN  /\ alarms' = Replace(alarms, it, alarm)
                            /\ events' = Emit(on_alarm_stopped_, "stopped", alarm)
                            /\ last' = Returned("StopAlarm", alarm_id, BoolRet(TRUE))
    /\ UNCHANGED <<next_alarm_id_, initialized_, alarms_mutex_, storage, config,
                   callbacks, clock>>

StopAllActiveAlarms ==
    /\ last' = Returned("StopAllActiveAlarms", 0, 0)
    /\ IF ~initialized_
       THEN /\ events' = <<>>
            /\ UNCHANGED alarms
       ELSE /\ Unlocked
            /\ alarms' = StopAllFrom(alarms, 1)
            /\ events' = StoppedFrom(alarms, 1, on_alarm_stopped_)
    /\ UNCHANGED <<next_alarm_id_, initialized_, alarms_mutex_, storage, config,
                   callbacks, clock>>

(***************************************************************************)
(* The queries.                                                            *)
(***************************************************************************)
\* what a query hands to its caller
Answered(op, id, value) ==
    [op |-> op, id |-> id, returned |-> TRUE, ret |-> 0, value |-> value]

\* AlarmItem*: a pointer is the id of the AlarmItem it points to, which is the
\* object of the collection itself; nullptr is 0
NullPtr == 0

\* GetActiveAlarms: the copies of the alarms that ring or are snoozed, from i on
RECURSIVE ActiveFrom(_, _)
ActiveFrom(as, i) ==
    IF i > Len(as) THEN <<>>
    ELSE (IF IsActive(as[i]) THEN <<as[i]>> ELSE <<>>) \o ActiveFrom(as, i + 1)

\* GetNextAlarmInfo: min_time_diff starts at the minutes of a week
MinutesPerDay == 24 * 60
InitialMinTimeDiff == 24 * 60 * 7
\* no day offset of the inner loop was taken
NoDay == -1

\* GetNextAlarmInfo: the inner loop from day_offset on; the time_diff of the
\* first offset that is not skipped and whose weekday is active
RECURSIVE TimeDiffFrom(_, _, _, _)
TimeDiffFrom(alarm, current_time, current_weekday, day_offset) ==
    IF day_offset >= 7 THEN NoDay
    ELSE LET alarm_time == alarm.hour * 60 + alarm.minute
             check_weekday == (current_weekday + day_offset) % 7
         IN  IF day_offset = 0 /\ alarm_time <= current_time
             THEN TimeDiffFrom(alarm, current_time, current_weekday, day_offset + 1)
             ELSE IF alarm.repeat_mode = kAlarmOnce /\ day_offset > 0
             THEN TimeDiffFrom(alarm, current_time, current_weekday, day_offset + 1)
             ELSE IF IsWeekdayActive(alarm, check_weekday)
             THEN (IF day_offset = 0 THEN alarm_time - current_time
                   ELSE day_offset * MinutesPerDay + alarm_time - current_time)
             ELSE TimeDiffFrom(alarm, current_time, current_weekday, day_offset + 1)

\* a search in which the later of two alarms at the same distance wins
RECURSIVE NextAlarmFromLastWins(_, _, _, _, _)
NextAlarmFromLastWins(as, i, current_time, current_weekday, found) ==
    IF i > Len(as) THEN found
    ELSE IF as[i].status # kAlarmEnabled
    THEN NextAlarmFromLastWins(as, i + 1, current_time, current_weekday, found)
    ELSE LET time_diff == TimeDiffFrom(as[i], current_time, current_weekday, 0)
         IN  NextAlarmFromLastWins(as, i + 1, current_time, current_weekday,
                                   IF time_diff # NoDay /\ time_diff <= found.min_time_diff
                                   THEN [next_alarm |-> i, min_time_diff |-> time_diff]
                                   ELSE found)

\* a search that does not skip the alarms that are not Enabled
RECURSIVE NextAlarmFromAnyStatus(_, _, _, _, _)
NextAlarmFromAnyStatus(as, i, current_time, current_weekday, found) ==
    IF i > Len(as) THEN found
    ELSE LET time_diff == TimeDiffFrom(as[i], current_time, current_weekday, 0)
         IN  NextAlarmFromAnyStatus(as, i + 1, current_time, current_weekday,
                                    IF time_diff # NoDay /\ time_diff < found.min_time_diff
                                    THEN [next_alarm |-> i, min_time_diff |-> time_diff]
                                    ELSE found)

\* GetNextAlarmInfo: the outer loop from alarm i on; next_alarm is the
\* position of the alarm found so far, 0 for nullptr
RECURSIVE NextAlarmFrom(_, _, _, _, _)
NextAlarmFrom(as, i, current_time, current_weekday, found) ==
    IF i > Len(as) THEN found
    ELSE IF as[i].status # kAlarmEnabled
    THEN NextAlarmFrom(as, i + 1, current_time, current_weekday, found)
    ELSE LET time_diff == TimeDiffFrom(as[i], current_time, current_weekday, 0)
         IN  NextAlarmFrom(as, i + 1, current_time, current_weekday,
                           IF time_diff # NoDay /\ time_diff < found.min_time_diff
                           THEN [next_alarm |-> i, min_time_diff |-> time_diff]
                           ELSE found)

NextAlarm(as, w) ==
    NextAlarmFrom(as, 1, GetCurrentTimeInMinutes(w), GetCurrentWeekday(w),
                  [next_alarm |-> 0, min_time_diff |-> InitialMinTimeDiff])

\* the strings of GetNextAlarmInfo, in Latin letters:
\* "闹钟管理器未初始化", "无活动闹钟", "下个闹钟: ", "小时", "分钟后", "天后"
NotInitializedInfo == "alarm manager not initialized"
NoActiveAlarmInfo == "no active alarms"

\* setfill('0') << setw(2)
TwoDigits(n) == IF n < 10 THEN "0" \o ToString(n) ELSE ToString(n)

FormatTime(hour, minute) == TwoDigits(hour) \o ":" \o TwoDigits(minute)

\* GetNextAlarmInfo: the text for the alarm found
FormatNextAlarm(alarm, min_time_diff) ==
    "next alarm: " \o FormatTime(alarm.hour, alarm.minute)
    \o (IF min_time_diff < MinutesPerDay
        THEN LET hours == min_time_diff \div 60
                 minutes == min_time_diff % 60
             IN  IF hours > 0
                 THEN " (in " \o ToString(hours) \o " hours " \o ToString(minutes) \o " minutes)"
                 ELSE " (in " \o ToString(minutes) \o " minutes)"
        ELSE " (in " \o ToString(min_time_diff \div MinutesPerDay) \o " days)")
    \o (IF alarm.label # "" THEN " - " \o alarm.label ELSE "")

NextAlarmInfo(as, w) ==
    LET found == NextAlarm(as, w)
    IN  IF found.next_alarm = 0 THEN NoActiveAlarmInfo
        ELSE FormatNextAlarm(as[found.next_alarm], found.min_time_diff)

\* a query changes nothing but the record of the call
QueryFrame ==
    UNCHANGED <<alarms, next_alarm_id_, initialized_, alarms_mutex_, storage, config,
                callbacks, clock>>

GetAllAlarms ==
    /\ initialized_ => Unlocked
    /\ last' = Answered("GetAllAlarms", 0, IF ~initialized_ THEN <<>> ELSE alarms)
    /\ events' = <<>>
    /\ QueryFrame

GetAlarm(alarm_id) ==
    /\ initialized_ => Unlocked
    /\ last' = Answered("GetAlarm", alarm_id,
                        IF ~initialized_ \/ FindAlarm(alarms, alarm_id) = 0
                        THEN NullPtr
                        ELSE alarms[FindAlarm(alarms, alarm_id)].id)
    /\ events' = <<>>
    /\ QueryFrame

GetActiveAlarms ==
    /\ initialized_ => Unlocked
    /\ last' = Answered("GetActiveAlarms", 0,
                        IF ~initialized_ THEN <<>> ELSE ActiveFrom(alarms, 1))
    /\ events' = <<>>
    /\ QueryFrame

GetNextAlarmInfo ==
    /\ initialized_ => Unlocked
    /\ last' = Answered("GetNextAlarmInfo", 0,
                        IF ~initialized_ THEN NotInitializedInfo
                        ELSE NextAlarmInfo(alarms, wall))
    /\ events' = <<>>
    /\ QueryFrame

(***************************************************************************)
(* The tick.                                                               *)
(***************************************************************************)
CheckAlarms ==
    /\ last' = Returned("CheckAlarms", 0, 0)
    /\ IF ~initialized_
       THEN /\ events' = <<>>
            /\ UNCHANGED alarms
       ELSE /\ Unlocked
            /\ alarms' = CheckFrom(alarms, 1, mono, wall)
            /\ events' = TriggeredFrom(alarms, 1, mono, wall, on_alarm_triggered_)
    /\ UNCHANGED <<next_alarm_id_, initialized_, alarms_mutex_, storage, config,
                   callbacks, clock>>

(***************************************************************************)
(* Callbacks and configuration.                                            *)
(***************************************************************************)
SetAlarmTriggeredCallback ==
    /\ on_alarm_triggered_' = TRUE
    /\ last' = Returned("SetAlarmTriggeredCallback", 0, 0)
    /\ events' = <<>>
    /\ UNCHANGED <<alarms, next_alarm_id_, initialized_, alarms_mutex_, storage, config,
                   on_alarm_snoozed_, on_alarm_stopped_, clock>>

SetAlarmSnoozeCallback ==
    /\ on_alarm_snoozed_' = TRUE
    /\ last' = Returned("SetAlarmSnoozeCallback", 0, 0)
    /\ events' = <<>>
    /\ UNCHANGED <<alarms, next_alarm_id_, initialized_, alarms_mutex_, storage, config,
                   on_alarm_triggered_, on_alarm_stopped_, clock>>

SetAlarmStopCallback ==
    /\ on_alarm_stopped_' = TRUE
    /\ last' = Returned("SetAlarmStopCallback", 0, 0)
    /\ events' = <<>>
    /\ UNCHANGED <<alarms, next_alarm_id_, initialized_, alarms_mutex_, storage, config,
                   on_alarm_triggered_, on_alarm_snoozed_, clock>>

SetDefaultSnoozeMinutes(minutes) ==
    /\ default_snooze_minutes_' = ClampSnoozeMinutes(minutes)
    /\ last' = Returned("SetDefaultSnoozeMinutes", 0, 0)
    /\ events' = <<>>
    /\ UNCHANGED <<alarms, next_alarm_id_, initialized_, alarms_mutex_, storage,
                   default_max_snooze_count_, callbacks, clock>>

SetDefaultMaxSnoozeCount(count) ==
    /\ default_max_snooze_count_' = ClampMaxSnoozeCount(count)
    /\ last' = Returned("SetDefaultMaxSnoozeCount", 0, 0)
    /\ events' = <<>>
    /\ UNCHANGED <<alarms, next_alarm_id_, initialized_, alarms_mutex_, storage,
                   default_snooze_minutes_, callbacks, clock>>

(***************************************************************************)
(* The environment: time passes; the device is power-cycled.               *)
(***************************************************************************)
AdvanceTime ==
    /\ wall - BootWall < MaxTicks * TimeStep
    /\ mono' = mono + TimeStep
    /\ wall' = wall + TimeStep
    /\ UNCHANGED <<alarms, next_alarm_id_, initialized_, alarms_mutex_, storage, config,
                   callbacks, last, events>>

\* a reset without Cleanup: the RAM is as after construction, the namespace and
\* the wall clock survive
Restart ==
    /\ alarms' = <<>>
    /\ next_alarm_id_' = InitialNextId
    /\ initialized_' = FALSE
    /\ default_snooze_minutes_' = InitialSnoozeMinutes
    /\ default_max_snooze_count_' = InitialMaxSnoozeCount
    /\ on_alarm_triggered_' = FALSE
    /\ on_alarm_snoozed_' = FALSE
    /\ on_alarm_stopped_' = FALSE
    /\ alarms_mutex_' = "unlocked"
    /\ mono' = 0
    /\ last' = Returned("constructor", 0, 0)
    /\ events' = <<>>
    /\ pc' = NoCallInFlight
    /\ UNCHANGED <<storage, wall>>

\* what a damaged record reads as: the empty string, or text that is not JSON
DamagedTexts == {EmptyString, [chars |-> 1]}
\* the flash loses or garbles a record while the manager is down
DamageRecord(index, text) ==
    /\ ~initialized_
    /\ AlarmKey(index) \in DOMAIN storage
    /\ storage' = SetKey(storage, AlarmKey(index), text)
    /\ last' = Returned("DamageRecord", index, 0)
    /\ events' = <<>>
    /\ UNCHANGED <<alarms, next_alarm_id_, initialized_, alarms_mutex_, config, callbacks,
                   clock>>

\* the application has registered its callbacks and configured the defaults
\* (SetAlarm...Callback, SetDefaultSnoozeMinutes, SetDefaultMaxSnoozeCount)
Configured ==
    /\ alarms = <<>>
    /\ next_alarm_id_ = InitialNextId
    /\ initialized_ = FALSE
    /\ default_snooze_minutes_ \in ConfiguredSnoozeMinutes
    /\ default_max_snooze_count_ \in ConfiguredMaxSnoozeCount
    /\ on_alarm_triggered_ = TRUE
    /\ on_alarm_snoozed_ = TRUE
    /\ on_alarm_stopped_ = TRUE
    /\ alarms_mutex_ = "unlocked"
    /\ storage = NoKeys
    /\ mono = 0
    /\ wall = BootWall
    /\ last = Returned("constructor", 0, 0)
    /\ events = <<>>
    /\ pc = NoCallInFlight

\* the bound on the ids: a call of AddAlarm that would hand one out is left
\* out once `bound` ids are in use
IdsLeft(bound, hour, minute) ==
    next_alarm_id_ <= bound \/ ~initialized_ \/ InvalidTime(hour, minute)

Next ==
    \/ Initialize /\ UNCHANGED pc
    \/ Cleanup /\ UNCHANGED pc
    \/ \E t \in TimeInputs, repeat_mode \in ModeInputs,
          label \in LabelInputs, music_name \in MusicInputs :
          /\ IdsLeft(MaxId, t[1], t[2])
          /\ AddAlarm(t[1], t[2], repeat_mode, label, music_name)
          /\ UNCHANGED pc
    \/ \E alarm_id \in IdInputs : RemoveAlarm(alarm_id) /\ UNCHANGED pc
    \/ \E alarm_id \in IdInputs, enabled \in BOOLEAN : EnableAlarm(alarm_id, enabled) /\ UNCHANGED pc
    \/ \E alarm_id \in IdInputs, t \in TimeInputs, repeat_mode \in ModeInputs,
          label \in LabelInputs, music_name \in MusicInputs :
          ModifyAlarm(alarm_id, t[1], t[2], repeat_mode, label, music_name) /\ UNCHANGED pc
    \/ \E alarm_id \in IdInputs : SnoozeAlarm(alarm_id) /\ UNCHANGED pc
    \/ \E alarm_id \in IdInputs : StopAlarm(alarm_id) /\ UNCHANGED pc
    \/ StopAllActiveAlarms /\ UNCHANGED pc
    \/ CheckAlarms /\ UNCHANGED pc
    \/ AdvanceTime /\ UNCHANGED pc

Spec == Configured /\ [][Next]_vars

(***************************************************************************)
(* The store and its mirror in the namespace, from the state after         *)
(* construction, with no clock: AddAlarm, ModifyAlarm, EnableAlarm,        *)
(* RemoveAlarm, the two defaults, Cleanup, Initialize and a power cycle.   *)
(***************************************************************************)
StoreInit ==
    /\ alarms = <<>>
    /\ next_alarm_id_ = InitialNextId
    /\ initialized_ = FALSE
    /\ \E d \in StoreDefaults :
          /\ default_snooze_minutes_ = d[1]
          /\ default_max_snooze_count_ = d[2]
    /\ on_alarm_triggered_ = FALSE
    /\ on_alarm_snoozed_ = FALSE
    /\ on_alarm_stopped_ = FALSE
    /\ alarms_mutex_ = "unlocked"
    /\ storage = NoKeys
    /\ mono = 0
    /\ wall = BootWall
    /\ last = Returned("constructor", 0, 0)
    /\ events = <<>>
    /\ pc = NoCallInFlight

NextStore ==
    \/ Initialize /\ UNCHANGED pc
    \/ Cleanup /\ UNCHANGED pc
    \/ \E t \in StoreTimeInputs, repeat_mode \in StoreModeInputs,
          label \in StoreLabelInputs, music_name \in StoreMusicInputs :
          /\ IdsLeft(StoreMaxId, t[1], t[2])
          /\ AddAlarm(t[1], t[2], repeat_mode, label, music_name)
          /\ UNCHANGED pc
    \/ \E alarm_id \in StoreIdInputs : RemoveAlarm(alarm_id) /\ UNCHANGED pc
    \/ \E alarm_id \in StoreIdInputs, enabled \in BOOLEAN : EnableAlarm(alarm_id, enabled) /\ UNCHANGED pc
    \/ \E alarm_id \in StoreIdInputs, t \in StoreTimeInputs,
          repeat_mode \in StoreModeInputs, label \in StoreLabelInputs,
          music_name \in StoreMusicInputs :
          ModifyAlarm(alarm_id, t[1], t[2], repeat_mode, label, music_name) /\ UNCHANGED pc
    \/ Restart

SpecStore == StoreInit /\ [][NextStore]_vars

(***************************************************************************)
(* The ids and the reload: two alarms that ring, are snoozed, modified and *)
(* removed, with Cleanup, power cycles and Initialize in between.          *)
(***************************************************************************)
NextReload ==
    \/ Initialize /\ UNCHANGED pc
    \/ Cleanup /\ UNCHANGED pc
    \/ \E t \in ReloadTimeInputs, repeat_mode \in ReloadModeInputs,
          label \in ReloadLabelInputs, music_name \in ReloadMusicInputs :
          /\ IdsLeft(ReloadMaxId, t[1], t[2])
          /\ AddAlarm(t[1], t[2], repeat_mode, label, music_name)
          /\ UNCHANGED pc
    \/ \E alarm_id \in ReloadIdInputs : RemoveAlarm(alarm_id) /\ UNCHANGED pc
    \/ \E alarm_id \in ReloadIdInputs, enabled \in BOOLEAN :
          EnableAlarm(alarm_id, enabled) /\ UNCHANGED pc
    \/ \E alarm_id \in ReloadIdInputs, t \in ReloadTimeInputs,
          repeat_mode \in ReloadModeInputs, label \in ReloadLabelInputs,
          music_name \in ReloadMusicInputs :
          ModifyAlarm(alarm_id, t[1], t[2], repeat_mode, label, music_name) /\ UNCHANGED pc
    \/ \E alarm_id \in ReloadIdInputs : SnoozeAlarm(alarm_id) /\ UNCHANGED pc
    \/ CheckAlarms /\ UNCHANGED pc
    \/ Restart

SpecReload == Configured /\ [][NextReload]_vars

(***************************************************************************)
(* The snooze budget: one alarm that rings and is snoozed until its        *)
(* snoozes are used up, while the defaults are set anew.                   *)
(***************************************************************************)
NextBudget ==
    \/ Initialize /\ UNCHANGED pc
    \/ \E t \in BudgetTimeInputs, repeat_mode \in BudgetModeInputs,
          label \in LabelInputs, music_name \in MusicInputs :
          /\ IdsLeft(MaxId, t[1], t[2])
          /\ AddAlarm(t[1], t[2], repeat_mode, label, music_name)
          /\ UNCHANGED pc
    \/ \E alarm_id \in IdInputs, enabled \in BOOLEAN :
          EnableAlarm(alarm_id, enabled) /\ UNCHANGED pc
    \/ \E alarm_id \in IdInputs, t \in BudgetTimeInputs, repeat_mode \in BudgetModeInputs,
          label \in LabelInputs, music_name \in MusicInputs :
          ModifyAlarm(alarm_id, t[1], t[2], repeat_mode, label, music_name) /\ UNCHANGED pc
    \/ \E alarm_id \in IdInputs : SnoozeAlarm(alarm_id) /\ UNCHANGED pc
    \/ \E alarm_id \in IdInputs : StopAlarm(alarm_id) /\ UNCHANGED pc
    \/ StopAllActiveAlarms /\ UNCHANGED pc
    \/ CheckAlarms /\ UNCHANGED pc
    \/ \E minutes \in BudgetSnoozeMinutesInputs :
          SetDefaultSnoozeMinutes(minutes) /\ UNCHANGED pc
    \/ \E count \in BudgetMaxSnoozeCountInputs :
          SetDefaultMaxSnoozeCount(count) /\ UNCHANGED pc
    \/ AdvanceTime /\ UNCHANGED pc

SpecBudget == Configured /\ [][NextBudget]_vars

(***************************************************************************)
(* Threads: Initialize and Cleanup run step by step on one thread each,    *)
(* while the tick and the calls of the other threads come in between.      *)
(* The clock stands at the alarm's minute.                                 *)
(***************************************************************************)
NextThreads ==
    \/ InitializeEnter
    \/ InitializeLock
    \/ InitializeLoad
    \/ InitializeReadNextId
    \/ InitializeWriteNextId
    \/ InitializeFinish
    \/ CleanupEnter
    \/ CleanupLock
    \/ CleanupStopAll
    \/ CleanupSave
    \/ CleanupClear
    \/ CleanupFinish
    \/ Initialize /\ UNCHANGED pc
    \/ \E t \in ThreadsTimeInputs, repeat_mode \in ThreadsModeInputs,
          label \in ThreadsLabelInputs, music_name \in ThreadsMusicInputs :
          /\ IdsLeft(ThreadsMaxId, t[1], t[2])
          /\ Len(alarms) < ThreadsMaxAlarms
          /\ AddAlarm(t[1], t[2], repeat_mode, label, music_name)
          /\ UNCHANGED pc
    \/ \E alarm_id \in ThreadsIdInputs : StopAlarm(alarm_id) /\ UNCHANGED pc
    \/ CheckAlarms /\ UNCHANGED pc
    \/ Restart

SpecThreads == Configured /\ [][NextThreads]_vars

(***************************************************************************)
(* The queries among the calls, before Initialize, on the initialized      *)
(* store and after Cleanup.  The clock stands at 07:30.                    *)
(***************************************************************************)
NextQuery ==
    \/ Initialize /\ UNCHANGED pc
    \/ Cleanup /\ UNCHANGED pc
    \/ \E t \in QueryTimeInputs, repeat_mode \in QueryModeInputs,
          label \in QueryLabelInputs, music_name \in QueryMusicInputs :
          /\ IdsLeft(QueryMaxId, t[1], t[2])
          /\ AddAlarm(t[1], t[2], repeat_mode, label, music_name)
          /\ UNCHANGED pc
    \/ \E alarm_id \in QueryIdInputs : RemoveAlarm(alarm_id) /\ UNCHANGED pc
    \/ \E alarm_id \in QueryIdInputs, enabled \in BOOLEAN :
          EnableAlarm(alarm_id, enabled) /\ UNCHANGED pc
    \/ \E alarm_id \in QueryIdInputs, t \in QueryTimeInputs, repeat_mode \in QueryModeInputs,
          label \in QueryLabelInputs, music_name \in QueryMusicInputs :
          ModifyAlarm(alarm_id, t[1], t[2], repeat_mode, label, music_name) /\ UNCHANGED pc
    \/ \E alarm_id \in QueryIdInputs : SnoozeAlarm(alarm_id) /\ UNCHANGED pc
    \/ \E alarm_id \in QueryIdInputs : StopAlarm(alarm_id) /\ UNCHANGED pc
    \/ StopAllActiveAlarms /\ UNCHANGED pc
    \/ CheckAlarms /\ UNCHANGED pc
    \/ GetAllAlarms /\ UNCHANGED pc
    \/ \E alarm_id \in QueryIdInputs : GetAlarm(alarm_id) /\ UNCHANGED pc
    \/ GetActiveAlarms /\ UNCHANGED pc
    \/ GetNextAlarmInfo /\ UNCHANGED pc

SpecQuery == Configured /\ [][NextQuery]_vars

(***************************************************************************)
(* The search of GetNextAlarmInfo, on the stores the calls can leave       *)
(* behind: each alarm as AddAlarm built it, or changed to kAlarmCustom by  *)
(* ModifyAlarm (which keeps the mask), enabled or disabled, saved and      *)
(* loaded again.                                                           *)
(***************************************************************************)
SelectAlarms(id) ==
    LET added == {NewAlarm(id, t[1], t[2], repeat_mode, SelectLabelInputs[id], "",
                           InitialSnoozeMinutes, InitialMaxSnoozeCount) :
                      t \in SelectTimeInputs, repeat_mode \in SelectModeInputs}
        modified == {ModifyTransition(alarm, alarm.hour, alarm.minute, kAlarmCustom,
                                      alarm.label, alarm.music_name) : alarm \in added}
    IN  {EnableTransition(alarm, enabled) :
             alarm \in added \cup modified, enabled \in BOOLEAN}

RECURSIVE SelectStores(_)
SelectStores(n) ==
    IF n = 0 THEN {<<>>}
    ELSE SelectStores(n - 1)
         \cup {Append(as, alarm) : as \in {st \in SelectStores(n - 1) : Len(st) = n - 1},
                                   alarm \in SelectAlarms(n)}

SelectInit ==
    /\ alarms \in SelectStores(SelectMaxAlarms)
    /\ next_alarm_id_ = Len(alarms) + 1
    /\ initialized_ = TRUE
    /\ default_snooze_minutes_ = InitialSnoozeMinutes
    /\ default_max_snooze_count_ = InitialMaxSnoozeCount
    /\ on_alarm_triggered_ = TRUE
    /\ on_alarm_snoozed_ = TRUE
    /\ on_alarm_stopped_ = TRUE
    /\ alarms_mutex_ = "unlocked"
    /\ storage = SetKey(SaveAlarmsToStorage(NoKeys, alarms), "next_id", Len(alarms) + 1)
    /\ mono = 0
    /\ wall \in SelectWallInputs
    /\ last = Returned("Initialize", 0, 0)
    /\ events = <<>>
    /\ pc = NoCallInFlight

NextSelect ==
    \/ GetNextAlarmInfo /\ UNCHANGED pc

SpecSelect == SelectInit /\ [][NextSelect]_vars

(***************************************************************************)
(* Two alarms of the same minute: they ring in the same tick, are snoozed  *)
(* and stopped one by one or together, while the clock runs.               *)
(***************************************************************************)
NextRing ==
    \/ Initialize /\ UNCHANGED pc
    \/ \E t \in RingTimeInputs, repeat_mode \in RingModeInputs,
          label \in LabelInputs, music_name \in MusicInputs :
          /\ IdsLeft(RingMaxId, t[1], t[2])
          /\ AddAlarm(t[1], t[2], repeat_mode, label, music_name)
          /\ UNCHANGED pc
    \/ \E alarm_id \in RingIdInputs, enabled \in BOOLEAN :
          EnableAlarm(alarm_id, enabled) /\ UNCHANGED pc
    \/ \E alarm_id \in RingIdInputs : SnoozeAlarm(alarm_id) /\ UNCHANGED pc
    \/ \E alarm_id \in RingIdInputs : StopAlarm(alarm_id) /\ UNCHANGED pc
    \/ StopAllActiveAlarms /\ UNCHANGED pc
    \/ CheckAlarms /\ UNCHANGED pc
    \/ AdvanceTime /\ UNCHANGED pc

SpecRing == Configured /\ [][NextRing]_vars

(***************************************************************************)
(* The defaults are set while alarms are added.                            *)
(***************************************************************************)
NextDefaults ==
    \/ Initialize /\ UNCHANGED pc
    \/ \E t \in RingTimeInputs, repeat_mode \in RingModeInputs,
          label \in LabelInputs, music_name \in MusicInputs :
          /\ IdsLeft(DefaultsMaxId, t[1], t[2])
          /\ AddAlarm(t[1], t[2], repeat_mode, label, music_name)
          /\ UNCHANGED pc
    \/ \E minutes \in SnoozeMinutesInputs : SetDefaultSnoozeMinutes(minutes) /\ UNCHANGED pc
    \/ \E count \in MaxSnoozeCountInputs : SetDefaultMaxSnoozeCount(count) /\ UNCHANGED pc

SpecDefaults == Init /\ [][NextDefaults]_vars

(***************************************************************************)
(* The load of a namespace with damaged records.                           *)
(***************************************************************************)
NextDamage ==
    \/ Initialize /\ UNCHANGED pc
    \/ Cleanup /\ UNCHANGED pc
    \/ \E t \in ReloadTimeInputs, repeat_mode \in ReloadModeInputs,
          label \in ReloadLabelInputs, music_name \in ReloadMusicInputs :
          /\ IdsLeft(ReloadMaxId + 1, t[1], t[2])
          /\ AddAlarm(t[1], t[2], repeat_mode, label, music_name)
          /\ UNCHANGED pc
    \/ \E alarm_id \in ReloadIdInputs, enabled \in BOOLEAN :
          EnableAlarm(alarm_id, enabled) /\ UNCHANGED pc
    \/ \E index \in 0..ReloadMaxId, text \in DamagedTexts :
          DamageRecord(index, text) /\ UNCHANGED pc

SpecDamage == Configured /\ [][NextDamage]_vars

(***************************************************************************)
(* Two alarms that ring and are snoozed while ModifyAlarm changes them.    *)
(***************************************************************************)
NextModify ==
    \/ Initialize /\ UNCHANGED pc
    \/ \E t \in RingTimeInputs, repeat_mode \in ReloadModeInputs,
          label \in LabelInputs, music_name \in MusicInputs :
          /\ IdsLeft(RingMaxId, t[1], t[2])
          /\ AddAlarm(t[1], t[2], repeat_mode, label, music_name)
          /\ UNCHANGED pc
    \/ \E alarm_id \in RingIdInputs, t \in ModifyTimeInputs, repeat_mode \in ModifyModeInputs,
          label \in ModifyLabelInputs, music_name \in StoreMusicInputs :
          ModifyAlarm(alarm_id, t[1], t[2], repeat_mode, label, music_name) /\ UNCHANGED pc
    \/ \E alarm_id \in RingIdInputs : SnoozeAlarm(alarm_id) /\ UNCHANGED pc
    \/ CheckAlarms /\ UNCHANGED pc
    \/ AdvanceTime /\ UNCHANGED pc

SpecModify == Configured /\ [][NextModify]_vars

(***************************************************************************)
(* The set-up of the application, from the state after construction: the   *)
(* callbacks and the defaults.                                             *)
(***************************************************************************)
NextSetup ==
    \/ SetAlarmTriggeredCallback /\ UNCHANGED pc
    \/ SetAlarmSnoozeCallback /\ UNCHANGED pc
    \/ SetAlarmStopCallback /\ UNCHANGED pc
    \/ \E minutes \in SnoozeMinutesInputs : SetDefaultSnoozeMinutes(minutes) /\ UNCHANGED pc
    \/ \E count \in MaxSnoozeCountInputs : SetDefaultMaxSnoozeCount(count) /\ UNCHANGED pc

SpecSetup == Init /\ [][NextSetup]_vars

(***************************************************************************)
(* Vocabulary of the properties.                                           *)
(***************************************************************************)
\* position of the alarm with this id in a store, 0 when absent
Pos(as, alarm_id) ==
    IF \E i \in 1..Len(as) : as[i].id = alarm_id
    THEN CHOOSE i \in 1..Len(as) : as[i].id = alarm_id /\ \A j \in 1..(i - 1) : as[j].id # alarm_id
    ELSE 0

Present(as, alarm_id) == \E i \in 1..Len(as) : as[i].id = alarm_id

\* the callbacks of one kind invoked for one alarm
Emitted(evs, cb, alarm_id) == {k \in 1..Len(evs) : evs[k].cb = cb /\ evs[k].alarm.id = alarm_id}

\* the weekdays of a mask, 0 = Sunday .. 6 = Saturday
Weekdays(mask) == {d \in 0..7 : (mask \div (2 ^ d)) % 2 = 1}

\* the status Stop leaves behind
StoppedStatus(alarm) ==
    IF alarm.repeat_mode = kAlarmOnce THEN kAlarmDisabled ELSE kAlarmEnabled

\* the fields that are persisted, status aside
PersistedFields(alarm) ==
    <<alarm.id, alarm.hour, alarm.minute, alarm.repeat_mode, alarm.weekdays_mask,
      alarm.label, alarm.music_name, alarm.snooze_minutes, alarm.max_snooze_count>>

RuntimeZero(alarm) ==
    alarm.snooze_count = 0 /\ alarm.last_triggered_time = 0 /\ alarm.next_snooze_time = 0

\* the records the namespace holds: count, then alarm_0 .. alarm_<count-1>
DurableRecords(st) ==
    [i \in 1..GetInt(st, "count", 0) |-> GetString(st, AlarmKey(i - 1))]

OutOfRange(hour, minute) == hour \notin 0..23 \/ minute \notin 0..59

\* this step is a call of op: every call records itself in last, and only the
\* clock moves without one
CallOf(op) == last'.op = op /\ mono' = mono

(***************************************************************************)
(* C1                                                                      *)
(***************************************************************************)
\* C1: SnoozeAlarm on a Triggered alarm that has used all its snoozes
\* (snooze_count = max_snooze_count) returns false and leaves the alarm Disabled
\* (Once) or Enabled (otherwise) with snooze_count = 0.
C1_SnoozeCeiling ==
    [][\A alarm_id \in IdInputs :
         LET it == Pos(alarms, alarm_id)
         IN  (/\ initialized_
              /\ it # 0
              /\ alarms[it].status = kAlarmTriggered
              /\ alarms[it].snooze_count = alarms[it].max_snooze_count
              /\ SnoozeAlarm(alarm_id))
             => /\ last'.returned
                /\ last'.ret = 0
                /\ alarms'[it].status = StoppedStatus(alarms[it])
                /\ alarms'[it].snooze_count = 0]_vars

(***************************************************************************)
(* C2                                                                      *)
(***************************************************************************)
\* C2: EnableAlarm on an alarm that is Triggered or Snoozed leaves the alarm,
\* status and snooze state included, as it was.
C2_EnableKeepsRinging ==
    [][\A alarm_id \in IdInputs, enabled \in BOOLEAN :
         LET it == Pos(alarms, alarm_id)
         IN  (/\ initialized_
              /\ it # 0
              /\ alarms[it].status \in {kAlarmTriggered, kAlarmSnoozed}
              /\ EnableAlarm(alarm_id, enabled))
             => alarms'[it] = alarms[it]]_vars

(***************************************************************************)
(* C3                                                                      *)
(***************************************************************************)
\* C3: RemoveAlarm of an id in the store returns true; afterwards the alarm is
\* gone, the other alarms are as they were and in their order, and the namespace
\* holds exactly them (count and alarm_0 .. alarm_<count-1>).
C3_RemovePersists ==
    [][\A alarm_id \in IdInputs \cup StoreIdInputs :
         LET it == Pos(alarms, alarm_id)
         IN  (initialized_ /\ it # 0 /\ RemoveAlarm(alarm_id))
             => /\ last'.returned
                /\ last'.ret = 1
                /\ ~Present(alarms', alarm_id)
                /\ alarms' = SubSeq(alarms, 1, it - 1) \o SubSeq(alarms, it + 1, Len(alarms))
                /\ DurableRecords(storage') = [i \in 1..Len(alarms') |-> ToJson(alarms'[i])]]_vars

(***************************************************************************)
(* C4                                                                      *)
(***************************************************************************)
\* what a reload shows of a store: the persisted fields, the status with
\* Triggered and Snoozed turned into Enabled
ReloadView(as) ==
    [i \in 1..Len(as) |->
        <<PersistedFields(as[i]),
          IF as[i].status \in {kAlarmTriggered, kAlarmSnoozed}
          THEN kAlarmEnabled ELSE as[i].status>>]

MutatingCalls ==
    {"AddAlarm", "RemoveAlarm", "EnableAlarm", "ModifyAlarm", "SnoozeAlarm", "StopAlarm"}

\* C4: when a mutating call has returned success, a restart without Cleanup
\* reloads exactly the alarms of the store, with the persisted fields as the
\* call left them.
C4_PersistsBeforeReturn ==
    (/\ last.op \in MutatingCalls
     /\ last.returned
     /\ last.ret > 0)
    => ReloadView(LoadAlarmsFromStorage(storage)) = ReloadView(alarms)

(***************************************************************************)
(* C5                                                                      *)
(***************************************************************************)
\* C5: AddAlarm with a time in range succeeds, and a save (Cleanup) followed by
\* a reload gives back every alarm of the store, in order, with id, hour,
\* minute, repeat_mode, weekdays_mask, label, music_name, snooze_minutes and
\* max_snooze_count as saved and snooze_count, last_triggered_time and
\* next_snooze_time zero.
C5_RoundTrip ==
    [][/\ (initialized_ /\ CallOf("AddAlarm") /\ last'.ret = -1)
            => \A t \in StoreTimeInputs, repeat_mode \in StoreModeInputs,
                  label \in StoreLabelInputs, music_name \in StoreMusicInputs :
                 ~OutOfRange(t[1], t[2])
                 => ~AddAlarm(t[1], t[2], repeat_mode, label, music_name)
       /\ (initialized_ /\ CallOf("AddAlarm") /\ last'.ret # -1)
            => /\ last'.ret > 0
               /\ Pos(alarms', last'.ret) = Len(alarms) + 1
       /\ (initialized_ /\ CallOf("Cleanup"))
            => LET reloaded == LoadAlarmsFromStorage(storage')
               IN  /\ Len(reloaded) = Len(alarms)
                   /\ \A i \in 1..Len(alarms) :
                        /\ PersistedFields(reloaded[i]) = PersistedFields(alarms[i])
                        /\ RuntimeZero(reloaded[i])
       /\ (~initialized_ /\ CallOf("Initialize"))
            => alarms' = LoadAlarmsFromStorage(storage)]_vars

\* an alarm with no default in its time, label, music or snooze settings is back
\* from the namespace
C5_Witness ==
    /\ last.op = "Initialize"
    /\ \E i \in 1..Len(alarms) :
         /\ alarms[i].hour = 23
         /\ alarms[i].label = "wake"
         /\ alarms[i].music_name = "song"
         /\ alarms[i].repeat_mode = kAlarmWeekdays
         /\ alarms[i].snooze_minutes = 60
         /\ alarms[i].max_snooze_count = 10

(***************************************************************************)
(* C6                                                                      *)
(***************************************************************************)
\* C6: AddAlarm and ModifyAlarm with an hour outside 0..23 or a minute outside
\* 0..59 fail and leave the alarms, the id counter and the namespace as they
\* were; every alarm of the store has its hour in 0..23 and its minute in 0..59.
C6_InvalidTimeRejected ==
    [][/\ CallOf("AddAlarm")
            => \/ last'.ret = -1 /\ UNCHANGED <<alarms, next_alarm_id_, storage>>
               \/ \A t \in StoreTimeInputs, repeat_mode \in StoreModeInputs,
                     label \in StoreLabelInputs, music_name \in StoreMusicInputs :
                    OutOfRange(t[1], t[2])
                    => ~AddAlarm(t[1], t[2], repeat_mode, label, music_name)
       /\ CallOf("ModifyAlarm")
            => \/ last'.ret = 0 /\ UNCHANGED <<alarms, next_alarm_id_, storage>>
               \/ \A t \in StoreTimeInputs, repeat_mode \in StoreModeInputs,
                     label \in StoreLabelInputs, music_name \in StoreMusicInputs :
                    OutOfRange(t[1], t[2])
                    => ~ModifyAlarm(last'.id, t[1], t[2], repeat_mode, label, music_name)
       /\ \A i \in 1..Len(alarms') : ~OutOfRange(alarms'[i].hour, alarms'[i].minute)]_vars

\* a call with a time out of range was refused by a store that holds an alarm
C6_Witness ==
    /\ initialized_
    /\ Len(alarms) = 1
    /\ last.op = "ModifyAlarm"
    /\ last.id = alarms[1].id
    /\ last.ret = 0

(***************************************************************************)
(* C7                                                                      *)
(***************************************************************************)
\* the mask the repeat mode stands for; Once and Custom leave the mask alone
DerivedWeekdays(repeat_mode, weekdays) ==
    CASE repeat_mode = kAlarmDaily -> 0..6
      [] repeat_mode = kAlarmWeekdays -> 1..5
      [] repeat_mode = kAlarmWeekends -> {0, 6}
      [] OTHER -> weekdays

\* C7: AddAlarm and ModifyAlarm derive weekdays_mask from the repeat mode: Daily
\* all seven days, Weekdays Monday to Friday, Weekends Sunday and Saturday; with
\* Once or Custom the mask stays what it was (the mask of the alarm modified, the
\* empty mask of a new AlarmItem).
C7_RepeatModeMask ==
    [][/\ (CallOf("AddAlarm") /\ last'.ret # -1)
            => LET new == alarms'[Len(alarms')]
               IN  /\ AddAlarm(new.hour, new.minute, new.repeat_mode, new.label,
                               new.music_name)
                   /\ Weekdays(new.weekdays_mask) = DerivedWeekdays(new.repeat_mode, {})
       /\ (CallOf("ModifyAlarm") /\ last'.ret = 1)
            => LET it == Pos(alarms, last'.id)
                   new == alarms'[it]
               IN  /\ ModifyAlarm(last'.id, new.hour, new.minute, new.repeat_mode,
                                  new.label, new.music_name)
                   /\ Weekdays(new.weekdays_mask)
                        = DerivedWeekdays(new.repeat_mode, Weekdays(alarms[it].weekdays_mask))
                   /\ new.repeat_mode \in {kAlarmOnce, kAlarmCustom}
                        => new.weekdays_mask = alarms[it].weekdays_mask]_vars

\* ModifyAlarm has made a Custom alarm of one that had a derived mask
C7_Witness ==
    /\ last.op = "ModifyAlarm"
    /\ last.ret = 1
    /\ \E i \in 1..Len(alarms) :
         /\ alarms[i].id = last.id
         /\ alarms[i].repeat_mode = kAlarmCustom
         /\ Weekdays(alarms[i].weekdays_mask) = 1..5

(***************************************************************************)
(* C8                                                                      *)
(***************************************************************************)
\* C8: StopAlarm on a Triggered or Snoozed alarm returns true, makes it Disabled
\* (Once) or Enabled (otherwise) with snooze_count and next_snooze_time 0, and
\* calls on_alarm_stopped_ once; on an Enabled or Disabled alarm it returns
\* false, changes nothing and calls nothing.
C8_Stop ==
    [][\A alarm_id \in IdInputs :
         LET it == Pos(alarms, alarm_id)
         IN  (initialized_ /\ it # 0 /\ StopAlarm(alarm_id))
             => IF alarms[it].status \in {kAlarmTriggered, kAlarmSnoozed}
                THEN /\ last'.returned /\ last'.ret = 1
                     /\ alarms' = [alarms EXCEPT ![it] =
                                     [alarms[it] EXCEPT !.status = StoppedStatus(alarms[it]),
                                                        !.snooze_count = 0,
                                                        !.next_snooze_time = 0]]
                     /\ Len(events') = 1
                     /\ events'[1].cb = "stopped"
                     /\ events'[1].alarm.id = alarm_id
                     /\ UNCHANGED <<storage, next_alarm_id_>>
                ELSE /\ last'.returned /\ last'.ret = 0
                     /\ events' = <<>>
                     /\ UNCHANGED <<alarms, storage, next_alarm_id_>>]_vars

\* a Once alarm that was snoozed has been stopped
C8_Witness ==
    /\ last.op = "StopAlarm"
    /\ last.ret = 1
    /\ Len(events) = 1
    /\ \E i \in 1..Len(alarms) :
         /\ alarms[i].id = last.id
         /\ alarms[i].repeat_mode = kAlarmOnce
         /\ alarms[i].status = kAlarmDisabled
         /\ alarms[i].last_triggered_time > 0

(***************************************************************************)
(* C9                                                                      *)
(***************************************************************************)
\* C9: when CheckAlarms has fired an alarm in its trigger minute and is called
\* again less than 60 seconds later in that minute, with no other call in
\* between, the first call invoked on_alarm_triggered_ once for the alarm, and
\* the second call invokes it not at all and leaves the alarm as it is.
C9_TickIdempotent ==
    [][\A i \in 1..Len(alarms) :
         (/\ last.op = "CheckAlarms"
          /\ Emitted(events, "triggered", alarms[i].id) # {}
          /\ alarms[i].hour * 60 + alarms[i].minute = (wall % 86400) \div 60
          /\ mono - alarms[i].last_triggered_time < 60
          /\ initialized_
          /\ CheckAlarms)
         => /\ Cardinality(Emitted(events, "triggered", alarms[i].id)) = 1
            /\ Emitted(events', "triggered", alarms[i].id) = {}
            /\ alarms'[i] = alarms[i]]_vars

\* the second call has happened, 30 seconds after the alarm fired
C9_Witness ==
    /\ last.op = "CheckAlarms"
    /\ events = <<>>
    /\ \E i \in 1..Len(alarms) :
         /\ alarms[i].status = kAlarmTriggered
         /\ alarms[i].hour * 60 + alarms[i].minute = (wall % 86400) \div 60
         /\ mono - alarms[i].last_triggered_time = 30

(***************************************************************************)
(* C10                                                                     *)
(***************************************************************************)
\* C10: SnoozeAlarm on a Triggered alarm with snooze_count < max_snooze_count
\* returns true, adds 1 to snooze_count, makes it Snoozed with next_snooze_time
\* = now + snooze_minutes * 60 and calls on_alarm_snoozed_ once; on an Enabled,
\* Disabled or Snoozed alarm it returns false, changes nothing, calls nothing.
C10_Snooze ==
    [][\A alarm_id \in IdInputs :
         LET it == Pos(alarms, alarm_id)
         IN  (initialized_ /\ it # 0 /\ SnoozeAlarm(alarm_id))
             => /\ (/\ alarms[it].status = kAlarmTriggered
                    /\ alarms[it].snooze_count < alarms[it].max_snooze_count)
                   => /\ last'.returned /\ last'.ret = 1
                      /\ alarms' = [alarms EXCEPT ![it] =
                            [alarms[it] EXCEPT
                               !.status = kAlarmSnoozed,
                               !.snooze_count = alarms[it].snooze_count + 1,
                               !.next_snooze_time = mono + alarms[it].snooze_minutes * 60]]
                      /\ Len(events') = 1
                      /\ events'[1].cb = "snoozed"
                      /\ events'[1].alarm.id = alarm_id
                /\ alarms[it].status \in {kAlarmEnabled, kAlarmDisabled, kAlarmSnoozed}
                   => /\ last'.returned /\ last'.ret = 0
                      /\ events' = <<>>
                      /\ UNCHANGED <<alarms, storage, next_alarm_id_>>]_vars

\* an alarm has been snoozed for the second time
C10_Witness ==
    /\ last.op = "SnoozeAlarm"
    /\ last.ret = 1
    /\ Len(events) = 1
    /\ \E i \in 1..Len(alarms) :
         /\ alarms[i].id = last.id
         /\ alarms[i].status = kAlarmSnoozed
         /\ alarms[i].snooze_count = 2
         /\ alarms[i].next_snooze_time = mono + 60

(***************************************************************************)
(* C11                                                                     *)
(***************************************************************************)
\* C11: AddAlarm with a time in range returns a positive id that no alarm of the
\* store has, and appends one alarm with that id, the hour, minute, repeat mode,
\* label and music name given, status Enabled, snooze_count and the two
\* timestamps 0, and snooze_minutes and max_snooze_count equal to the defaults
\* in force; the alarms that were there are unchanged and keep their places.
C11_AddAppends ==
    [][\A t \in ReloadTimeInputs, repeat_mode \in ReloadModeInputs,
          label \in ReloadLabelInputs, music_name \in ReloadMusicInputs :
         (/\ initialized_
          /\ ~OutOfRange(t[1], t[2])
          /\ AddAlarm(t[1], t[2], repeat_mode, label, music_name))
         => /\ last'.returned
            /\ last'.ret > 0
            /\ ~Present(alarms, last'.ret)
            /\ Len(alarms') = Len(alarms) + 1
            /\ SubSeq(alarms', 1, Len(alarms)) = alarms
            /\ LET new == alarms'[Len(alarms')]
               IN  /\ new.id = last'.ret
                   /\ new.hour = t[1]
                   /\ new.minute = t[2]
                   /\ new.repeat_mode = repeat_mode
                   /\ new.label = label
                   /\ new.music_name = music_name
                   /\ new.status = kAlarmEnabled
                   /\ RuntimeZero(new)
                   /\ new.snooze_minutes = default_snooze_minutes_
                   /\ new.max_snooze_count = default_max_snooze_count_]_vars

\* a second alarm has been added, with defaults that are not the constructor's,
\* behind one that rings
C11_Witness ==
    /\ last.op = "AddAlarm"
    /\ Len(alarms) = 2
    /\ alarms[2].id = last.ret
    /\ alarms[1].status = kAlarmTriggered
    /\ alarms[2].snooze_minutes = 1
    /\ alarms[2].max_snooze_count \in {0, 2}

(***************************************************************************)
(* C12                                                                     *)
(***************************************************************************)
\* the id counter the namespace holds
SavedCounter(st) == IF "next_id" \in DOMAIN st THEN st["next_id"] ELSE 1

\* C12: the alarms of the store have pairwise distinct ids, and an id AddAlarm
\* returns was never returned before: the counter saved in the namespace never
\* goes down, is above every id of the store, is not above the id AddAlarm
\* returns and is above it afterwards -- through RemoveAlarm, Cleanup, a power
\* cycle and Initialize.
C12_IdsUnique ==
    [][/\ \A i, j \in 1..Len(alarms') : i # j => alarms'[i].id # alarms'[j].id
       /\ \A i \in 1..Len(alarms') : alarms'[i].id < SavedCounter(storage')
       /\ SavedCounter(storage') >= SavedCounter(storage)
       /\ (CallOf("AddAlarm") /\ last'.ret # -1)
            => /\ last'.ret >= SavedCounter(storage)
               /\ last'.ret < SavedCounter(storage')]_vars

\* AddAlarm has returned the second id after a power cycle that lost the first
\* alarm, or after its removal
C12_Witness ==
    /\ last.op = "AddAlarm"
    /\ last.ret = 2
    /\ Len(alarms) = 1
    /\ alarms[1].id = 2

(***************************************************************************)
(* C14                                                                     *)
(***************************************************************************)
\* C14: after Initialize has loaded the namespace no alarm is Triggered or
\* Snoozed: a record saved as Triggered or Snoozed is loaded as Enabled, one
\* saved as Enabled or Disabled keeps its status, and every alarm loaded has
\* snooze_count, last_triggered_time and next_snooze_time 0.
C14_LoadDowngrades ==
    [][(~initialized_ /\ CallOf("Initialize"))
         => LET records == DurableRecords(storage)
            IN  /\ Len(alarms') = Len(records)
                /\ \A i \in 1..Len(alarms') :
                     /\ alarms'[i].status \notin {kAlarmTriggered, kAlarmSnoozed}
                     /\ records[i].status \in {kAlarmTriggered, kAlarmSnoozed}
                          => alarms'[i].status = kAlarmEnabled
                     /\ records[i].status \in {kAlarmEnabled, kAlarmDisabled}
                          => alarms'[i].status = records[i].status
                     /\ RuntimeZero(alarms'[i])]_vars

\* a record saved as Snoozed and one saved as Disabled have been loaded
C14_Witness ==
    /\ last.op = "Initialize"
    /\ initialized_
    /\ Len(alarms) = 2
    /\ Len(DurableRecords(storage)) = 2
    /\ \E i, j \in 1..2 :
         /\ DurableRecords(storage)[i].status = kAlarmSnoozed
         /\ alarms[i].status = kAlarmEnabled
         /\ DurableRecords(storage)[j].status = kAlarmDisabled
         /\ alarms[j].status = kAlarmDisabled


\* C13: in every reachable state every alarm has
\* 0 <= snooze_count <= max_snooze_count, whatever sequence of Add, Modify,
\* Enable, Snooze, Stop, StopAll, Evaluate and setter calls led there.
C13_SnoozeCountBounded ==
    \A i \in 1..Len(alarms) :
        /\ 0 <= alarms[i].snooze_count
        /\ alarms[i].snooze_count <= alarms[i].max_snooze_count

\* a snoozed alarm that has used its last snooze, under a ceiling the setter gave
C13_Witness ==
    /\ last.op = "SnoozeAlarm"
    /\ last.ret = BoolRet(TRUE)
    /\ \E i \in 1..Len(alarms) :
          /\ alarms[i].id = last.id
          /\ alarms[i].status = kAlarmSnoozed
          /\ alarms[i].max_snooze_count = 1
          /\ alarms[i].snooze_count = 1
          /\ default_max_snooze_count_ = 0


(***************************************************************************)
(* C15                                                                     *)
(***************************************************************************)
\* C15: when Cleanup completes, no record of the namespace has status
\* Triggered or Snoozed, whatever ticks and calls of other threads came in
\* between its steps.
C15_CleanupLeavesNoneRinging ==
    [][(pc.Cleanup = "finish" /\ pc'.Cleanup = "idle" /\ last'.op = "Cleanup")
         => LET records == DurableRecords(storage')
            IN  \A i \in 1..Len(records) :
                    records[i].status \notin {kAlarmTriggered, kAlarmSnoozed}]_vars

(***************************************************************************)
(* C16                                                                     *)
(***************************************************************************)
\* C16: every step of Initialize or Cleanup that writes the alarm collection
\* or the id counter is taken while alarms_mutex_ is held.
C16_WritesUnderMutex ==
    [][(/\ last'.op # "constructor"
        /\ pc' # pc
        /\ alarms' # alarms \/ next_alarm_id_' # next_alarm_id_)
         => alarms_mutex_ = "locked"]_vars


(***************************************************************************)
(* C17                                                                     *)
(***************************************************************************)
\* what the caller of a query holds, read in a store: the list for GetAllAlarms
\* and GetActiveAlarms; for GetAlarm the AlarmItem behind the pointer, as a
\* list of one, and the empty list when there is none
HeldValue(as, call) ==
    IF call.op = "GetAlarm"
    THEN (IF Present(as, call.value) THEN <<as[Pos(as, call.value)]>> ELSE <<>>)
    ELSE call.value

\* C17: what GetAllAlarms, GetActiveAlarms and GetAlarm handed to the caller
\* is not changed by a later ModifyAlarm, EnableAlarm, SnoozeAlarm, StopAlarm,
\* CheckAlarms or RemoveAlarm.
C17_QueriesAreSnapshots ==
    [][(/\ last.op \in {"GetAllAlarms", "GetActiveAlarms", "GetAlarm"}
        /\ last'.op \in {"ModifyAlarm", "EnableAlarm", "SnoozeAlarm", "StopAlarm",
                          "CheckAlarms", "RemoveAlarm"})
         => HeldValue(alarms', last) = HeldValue(alarms, last)]_vars


(***************************************************************************)
(* C19                                                                     *)
(***************************************************************************)
\* the neutral failure of each call
NeutralFailure(call) ==
    /\ call.returned
    /\ call.op = "AddAlarm" => call.ret = -1
    /\ call.op \in {"RemoveAlarm", "EnableAlarm", "ModifyAlarm", "SnoozeAlarm", "StopAlarm"}
         => call.ret = BoolRet(FALSE)
    /\ call.op \in {"GetAllAlarms", "GetActiveAlarms"} => call.value = <<>>
    /\ call.op = "GetAlarm" => call.value = NullPtr
    /\ call.op = "GetNextAlarmInfo" => call.value = NotInitializedInfo

\* C19: while the manager is not initialized (before Initialize, after
\* Cleanup), every call but Initialize returns its neutral failure, emits no
\* callback and leaves the alarms, the id counter and the namespace as they were.
C19_UninitializedUse ==
    [][(~initialized_ /\ last'.op # "Initialize")
         => /\ NeutralFailure(last')
            /\ events' = <<>>
            /\ UNCHANGED <<alarms, next_alarm_id_, storage, initialized_>>]_vars

\* AddAlarm has failed after a Cleanup that saved an alarm
C19_Witness ==
    /\ ~initialized_
    /\ last.op = "AddAlarm"
    /\ last.ret = -1
    /\ GetInt(storage, "count", 0) = 1
    /\ alarms = <<>>


(***************************************************************************)
(* C20                                                                     *)
(***************************************************************************)
\* C20: on the initialized store with no alarm of status Enabled (no alarm at
\* all, or only Disabled, Triggered and Snoozed ones), GetNextAlarmInfo returns
\* the "no active alarms" string, which is not the empty string and not the
\* string of the manager that is not initialized.
C20_NoEnabledGivesSentinel ==
    [][(/\ CallOf("GetNextAlarmInfo")
        /\ initialized_
        /\ \A i \in 1..Len(alarms) : alarms[i].status # kAlarmEnabled)
         => /\ last'.returned
            /\ last'.value = NoActiveAlarmInfo
            /\ last'.value \notin {"", NotInitializedInfo}]_vars

\* the string has been returned for a store whose only alarm is snoozed
C20_Witness ==
    /\ last.op = "GetNextAlarmInfo"
    /\ initialized_
    /\ Len(alarms) = 1
    /\ alarms[1].status = kAlarmSnoozed
    /\ alarms[1].hour = 7 /\ alarms[1].minute = 31
    /\ last.value = NoActiveAlarmInfo


(***************************************************************************)
(* C18                                                                     *)
(***************************************************************************)
\* C18: RemoveAlarm, EnableAlarm, ModifyAlarm, SnoozeAlarm and StopAlarm of an
\* id that is not in the store return false, emit no callback and leave the
\* alarms, the id counter and the namespace as they were.
C18_NotFound ==
    [][(/\ last'.op \in {"RemoveAlarm", "EnableAlarm", "ModifyAlarm", "SnoozeAlarm",
                          "StopAlarm"}
        /\ mono' = mono
        /\ ~Present(alarms, last'.id))
         => /\ last'.returned
            /\ last'.ret = BoolRet(FALSE)
            /\ events' = <<>>
            /\ UNCHANGED <<alarms, next_alarm_id_, storage>>]_vars

\* StopAlarm of an id that is not there has returned, with another alarm ringing
C18_Witness ==
    /\ initialized_
    /\ last.op = "StopAlarm"
    /\ last.ret = BoolRet(FALSE)
    /\ Len(alarms) = 1
    /\ alarms[1].status = kAlarmTriggered
    /\ alarms[1].id # last.id


(***************************************************************************)
(* C21                                                                     *)
(***************************************************************************)
\* the day offsets of 0..6 that are not skipped and whose weekday is active
OpenOffsets(alarm, w) ==
    {d \in 0..6 :
        /\ ~(d = 0 /\ alarm.hour * 60 + alarm.minute <= GetCurrentTimeInMinutes(w))
        /\ ~(d > 0 /\ alarm.repeat_mode = kAlarmOnce)
        /\ \/ alarm.repeat_mode = kAlarmOnce
           \/ (GetCurrentWeekday(w) + d) % 7 \in Weekdays(alarm.weekdays_mask)}

\* the distance of an alarm that has an open offset, in minutes
Distance(alarm, w) ==
    LET first == CHOOSE d \in OpenOffsets(alarm, w) :
                     \A e \in OpenOffsets(alarm, w) : d <= e
    IN  first * 1440 + alarm.hour * 60 + alarm.minute - GetCurrentTimeInMinutes(w)

\* the Enabled alarms that have a distance
Candidates(as, w) ==
    {i \in 1..Len(as) : as[i].status = kAlarmEnabled /\ OpenOffsets(as[i], w) # {}}

\* C21: GetNextAlarmInfo reports the Enabled alarm of minimum distance, the
\* earlier in stored order on a tie, with a distance in 1..10079, where the
\* distance is offset*1440 + alarm minutes - current minutes at the first open
\* offset; with no such alarm it reports that there is none.
C21_NextAlarmSelection ==
    [][(CallOf("GetNextAlarmInfo") /\ initialized_)
         => LET cands == Candidates(alarms, wall)
            IN  IF cands = {}
                THEN last'.value = NoActiveAlarmInfo
                ELSE LET win == CHOOSE i \in cands :
                                    \A j \in cands :
                                        \/ Distance(alarms[i], wall) < Distance(alarms[j], wall)
                                        \/ /\ Distance(alarms[i], wall) = Distance(alarms[j], wall)
                                           /\ i <= j
                     IN  /\ Distance(alarms[win], wall) \in 1..10079
                         /\ last'.value = FormatNextAlarm(alarms[win], Distance(alarms[win], wall))]_vars

\* Monday 07:30, two alarms at 08:30, Once and then Weekdays: both are 60
\* minutes away and the first is reported
C21_Witness ==
    /\ last.op = "GetNextAlarmInfo"
    /\ wall = BootWall
    /\ Len(alarms) = 2
    /\ \A i \in 1..2 : alarms[i].status = kAlarmEnabled /\ alarms[i].hour = 8
    /\ alarms[1].repeat_mode = kAlarmOnce
    /\ alarms[2].repeat_mode = kAlarmWeekdays
    /\ last.value = FormatNextAlarm(alarms[1], 60)
    /\ last.value # FormatNextAlarm(alarms[2], 60)


(***************************************************************************)
(* C22                                                                     *)
(***************************************************************************)
\* the positions of the alarms that ring or are snoozed
ActivePositions(as) == {i \in 1..Len(as) : as[i].status \in {kAlarmTriggered, kAlarmSnoozed}}

\* C22: StopAllActiveAlarms stops every alarm that is Triggered or Snoozed
\* (Disabled for Once, Enabled otherwise, snooze_count 0, deadline 0) and calls
\* on_alarm_stopped_ once for each of them; it leaves the other alarms as they
\* were, and afterwards no alarm is Triggered or Snoozed.
C22_StopAll ==
    [][(CallOf("StopAllActiveAlarms") /\ initialized_)
         => /\ last'.returned
            /\ Len(alarms') = Len(alarms)
            /\ ActivePositions(alarms') = {}
            /\ \A i \in 1..Len(alarms) :
                  IF i \in ActivePositions(alarms)
                  THEN /\ alarms'[i] = [alarms[i] EXCEPT !.status = StoppedStatus(alarms[i]),
                                                         !.snooze_count = 0,
                                                         !.next_snooze_time = 0]
                       /\ Cardinality({k \in 1..Len(events') :
                                          events'[k].alarm.id = alarms[i].id}) = 1
                  ELSE alarms'[i] = alarms[i]
            /\ Len(events') = Cardinality(ActivePositions(alarms))
            /\ \A k \in 1..Len(events') : events'[k].cb = "stopped"]_vars

\* StopAllActiveAlarms has stopped two alarms that rang, a Once alarm and a
\* Daily alarm
C22_Witness ==
    /\ last.op = "StopAllActiveAlarms"
    /\ Len(alarms) = 2
    /\ Len(events) = 2
    /\ \E i, j \in 1..2 :
          /\ alarms[i].repeat_mode = kAlarmOnce /\ alarms[i].status = kAlarmDisabled
          /\ alarms[j].repeat_mode = kAlarmDaily /\ alarms[j].status = kAlarmEnabled
          /\ alarms[j].last_triggered_time > 0


(***************************************************************************)
(* C23                                                                     *)
(***************************************************************************)
\* the value of lo..hi nearest to n
Nearest(n, lo, hi) == IF n < lo THEN lo ELSE IF n > hi THEN hi ELSE n

\* C23: SetDefaultSnoozeMinutes sets the default to its argument brought into
\* 1..60, SetDefaultMaxSnoozeCount to its argument brought into 0..10; either
\* changes nothing else, the alarms of the store least of all, and an alarm
\* that AddAlarm appends afterwards takes the defaults of that moment.
C23_SettersClamp ==
    [][/\ CallOf("SetDefaultSnoozeMinutes")
           => \A minutes \in SnoozeMinutesInputs :
                 SetDefaultSnoozeMinutes(minutes)
                    => /\ default_snooze_minutes_' = Nearest(minutes, 1, 60)
                       /\ UNCHANGED <<alarms, default_max_snooze_count_, storage,
                                      next_alarm_id_>>
       /\ CallOf("SetDefaultMaxSnoozeCount")
           => \A count \in MaxSnoozeCountInputs :
                 SetDefaultMaxSnoozeCount(count)
                    => /\ default_max_snooze_count_' = Nearest(count, 0, 10)
                       /\ UNCHANGED <<alarms, default_snooze_minutes_, storage,
                                      next_alarm_id_>>
       /\ (CallOf("AddAlarm") /\ last'.ret > 0)
           => /\ alarms'[Len(alarms')].snooze_minutes = default_snooze_minutes_
              /\ alarms'[Len(alarms')].max_snooze_count = default_max_snooze_count_
              /\ SubSeq(alarms', 1, Len(alarms)) = alarms]_vars

\* the defaults were set between two calls of AddAlarm and again afterwards:
\* each alarm has the defaults of its own moment
C23_Witness ==
    /\ last.op = "SetDefaultSnoozeMinutes"
    /\ default_snooze_minutes_ = 1
    /\ default_max_snooze_count_ = 0
    /\ Len(alarms) = 2
    /\ alarms[1].snooze_minutes = 5 /\ alarms[1].max_snooze_count = 3
    /\ alarms[2].snooze_minutes = 60 /\ alarms[2].max_snooze_count = 10


(***************************************************************************)
(* C24                                                                     *)
(***************************************************************************)
\* a record the load can use: not empty, and the text of a JSON object
WellFormed(text) == text # EmptyString /\ ParsesAsJson(text)

\* C24: Initialize loads, in index order, every well-formed record among
\* alarm_0 .. alarm_<count-1> and skips exactly the records that are empty or
\* do not parse.
C24_LoadSkipsDamaged ==
    [][(~initialized_ /\ CallOf("Initialize"))
         => LET usable == SelectSeq(DurableRecords(storage), WellFormed)
            IN  /\ last'.returned
                /\ initialized_'
                /\ alarms' = [k \in 1..Len(usable) |-> FromJson(usable[k])]]_vars

\* a namespace of three records, the first not JSON and the second empty, has
\* been loaded: the third record is the only alarm
C24_Witness ==
    /\ last.op = "Initialize"
    /\ initialized_
    /\ GetInt(storage, "count", 0) = 3
    /\ ~ParsesAsJson(GetString(storage, AlarmKey(0)))
    /\ GetString(storage, AlarmKey(1)) = EmptyString
    /\ Len(alarms) = 1
    /\ alarms[1].id = 3


(***************************************************************************)
(* C25                                                                     *)
(***************************************************************************)
\* C25: ModifyAlarm of an alarm of the store, with a time in range, returns
\* true and changes hour, minute, repeat_mode, label, music_name and the
\* derived weekdays_mask of that alarm only: its other fields, its position,
\* the other alarms and the id counter are as before, and no callback is called.
C25_ModifyFrame ==
    [][(/\ CallOf("ModifyAlarm")
        /\ initialized_
        /\ Present(alarms, last'.id))
         => LET it == Pos(alarms, last'.id)
                old == alarms[it]
                new == alarms'[it]
            IN  /\ last'.returned
                /\ last'.ret = BoolRet(TRUE)
                /\ events' = <<>>
                /\ Len(alarms') = Len(alarms)
                /\ \A i \in 1..Len(alarms) : i # it => alarms'[i] = alarms[i]
                /\ [new EXCEPT !.hour = old.hour, !.minute = old.minute,
                               !.repeat_mode = old.repeat_mode, !.label = old.label,
                               !.music_name = old.music_name,
                               !.weekdays_mask = old.weekdays_mask] = old
                /\ Weekdays(new.weekdays_mask)
                     = DerivedWeekdays(new.repeat_mode, Weekdays(old.weekdays_mask))
                /\ UNCHANGED <<next_alarm_id_, config>>]_vars

\* ModifyAlarm has changed a snoozed alarm, next to one that rings: the alarm
\* is still snoozed, with its count, its deadline and its last trigger time
C25_Witness ==
    /\ last.op = "ModifyAlarm"
    /\ last.ret = BoolRet(TRUE)
    /\ Len(alarms) = 2
    /\ \E i, j \in 1..2 :
          /\ alarms[i].id = last.id
          /\ alarms[i].hour = 7 /\ alarms[i].minute = 31
          /\ alarms[i].repeat_mode = kAlarmWeekdays
          /\ alarms[i].status = kAlarmSnoozed
          /\ alarms[i].snooze_count = 1
          /\ alarms[i].last_triggered_time > 0
          /\ alarms[i].next_snooze_time > 0
          /\ alarms[j].status = kAlarmTriggered
          /\ alarms[j].minute = 30


(***************************************************************************)
(* C26                                                                     *)
(***************************************************************************)
\* the status changes of the state machine, each with the calls that make it
AllowedChange(from, to, op) ==
    \/ /\ {from, to} = {kAlarmDisabled, kAlarmEnabled}
       /\ op = "EnableAlarm"
    \/ /\ from = kAlarmEnabled /\ to = kAlarmTriggered
       /\ op = "CheckAlarms"
    \/ /\ from = kAlarmTriggered /\ to = kAlarmSnoozed
       /\ op = "SnoozeAlarm"
    \/ /\ from = kAlarmTriggered /\ to \in {kAlarmEnabled, kAlarmDisabled}
       /\ op \in {"StopAlarm", "StopAllActiveAlarms", "SnoozeAlarm"}
    \/ /\ from = kAlarmSnoozed /\ to = kAlarmTriggered
       /\ op = "CheckAlarms"
    \/ /\ from = kAlarmSnoozed /\ to \in {kAlarmEnabled, kAlarmDisabled}
       /\ op \in {"StopAlarm", "StopAllActiveAlarms"}

\* C26: every change of the status of an alarm that is in the store before
\* and after a step is a change of the state machine, made by a call that the
\* state machine names for it.
C26_StateMachine ==
    [][\A i \in 1..Len(alarms) :
          (/\ Present(alarms', alarms[i].id)
           /\ alarms'[Pos(alarms', alarms[i].id)].status # alarms[i].status)
            => AllowedChange(alarms[i].status,
                             alarms'[Pos(alarms', alarms[i].id)].status,
                             last'.op)]_vars

(***************************************************************************)
(* C27                                                                     *)
(***************************************************************************)
\* the alarm is ringing
Ringing(alarm) == alarm.status = kAlarmTriggered \/ alarm.status = kAlarmSnoozed

\* C27: a call of CheckAlarms on the initialized store moves an Enabled alarm
\* to Triggered exactly when hour * 60 + minute is the minute of the day of the
\* wall clock, the alarm is Once or the bit of the weekday is set in its mask,
\* and it has not fired (last_triggered_time > 0) less than 60 seconds before;
\* the alarm that fires gets last_triggered_time = the monotonic clock and
\* snooze_count = 0, keeps its other fields, and on_alarm_triggered_ is
\* invoked once for it.  A Disabled or Triggered alarm is left as it is, a
\* Snoozed one keeps last_triggered_time and snooze_count, and an alarm that
\* starts to ring in any step was Enabled and is fired by CheckAlarms.
C27_NormalFire ==
    [][/\ (CallOf("CheckAlarms") /\ initialized_) =>
            /\ Len(alarms') = Len(alarms)
            /\ \A i \in 1..Len(alarms) :
                 LET a == alarms[i]
                     b == alarms'[i]
                     due == /\ a.hour * 60 + a.minute = (wall % 86400) \div 60
                            /\ \/ a.repeat_mode = kAlarmOnce
                               \/ ((wall \div 86400) % 7) \in Weekdays(a.weekdays_mask)
                            /\ ~(a.last_triggered_time > 0 /\ mono - a.last_triggered_time < 60)
                 IN  /\ a.status = kAlarmEnabled =>
                          IF due
                          THEN /\ b = [a EXCEPT !.status = kAlarmTriggered,
                                                !.last_triggered_time = mono,
                                                !.snooze_count = 0]
                               /\ on_alarm_triggered_ =>
                                    Cardinality(Emitted(events', "triggered", a.id)) = 1
                          ELSE /\ b = a
                               /\ Emitted(events', "triggered", a.id) = {}
                     /\ a.status \in {kAlarmDisabled, kAlarmTriggered} =>
                          /\ b = a
                          /\ Emitted(events', "triggered", a.id) = {}
                     /\ a.status = kAlarmSnoozed =>
                          /\ b.last_triggered_time = a.last_triggered_time
                          /\ b.snooze_count = a.snooze_count
       /\ \A k \in 1..Len(alarms') :
            (Ringing(alarms'[k]) /\ ~(Present(alarms, alarms'[k].id)
                                      /\ Ringing(alarms[Pos(alarms, alarms'[k].id)])))
              => /\ CallOf("CheckAlarms")
                 /\ Present(alarms, alarms'[k].id)
                 /\ alarms[Pos(alarms, alarms'[k].id)].status = kAlarmEnabled]_vars

\* CheckAlarms has just fired an alarm, after the first tick of the clock
C27_Witness ==
    /\ last.op = "CheckAlarms"
    /\ \E i \in 1..Len(alarms) :
         /\ alarms[i].status = kAlarmTriggered
         /\ alarms[i].last_triggered_time = mono
         /\ mono > 0
         /\ Emitted(events, "triggered", alarms[i].id) # {}

(***************************************************************************)
(* C28                                                                     *)
(***************************************************************************)
\* C28: a call of CheckAlarms on the initialized store makes a Snoozed alarm
\* whose next_snooze_time the monotonic clock has reached Triggered with
\* next_snooze_time = 0, every other field (snooze_count and
\* last_triggered_time among them) as before, and invokes on_alarm_triggered_
\* once for it, which rules out a normal fire of the same alarm in the same
\* call; a Snoozed alarm whose next_snooze_time lies ahead is left as it is and
\* no callback is invoked for it.
C28_SnoozeExpiry ==
    [][(CallOf("CheckAlarms") /\ initialized_) =>
         \A i \in 1..Len(alarms) :
            alarms[i].status = kAlarmSnoozed =>
              IF mono >= alarms[i].next_snooze_time
              THEN /\ alarms'[i] = [alarms[i] EXCEPT !.status = kAlarmTriggered,
                                                     !.next_snooze_time = 0]
                   /\ on_alarm_triggered_ =>
                        Cardinality(Emitted(events', "triggered", alarms[i].id)) = 1
              ELSE /\ alarms'[i] = alarms[i]
                   /\ Emitted(events', "triggered", alarms[i].id) = {}]_vars

\* CheckAlarms has ended a snooze: the alarm rings again, it has been snoozed
\* once and fired before the tick
C28_Witness ==
    /\ last.op = "CheckAlarms"
    /\ \E i \in 1..Len(alarms) :
         /\ alarms[i].status = kAlarmTriggered
         /\ alarms[i].snooze_count > 0
         /\ alarms[i].next_snooze_time = 0
         /\ alarms[i].last_triggered_time < mono
         /\ Emitted(events, "triggered", alarms[i].id) # {}

(***************************************************************************)
(* C29                                                                     *)
(***************************************************************************)
\* the calls that invoke a callback of this kind
CallsEmitting(cb) ==
    IF cb = "triggered" THEN {"CheckAlarms"}
    ELSE IF cb = "snoozed" THEN {"SnoozeAlarm"}
    ELSE {"StopAlarm", "StopAllActiveAlarms", "SnoozeAlarm", "Cleanup"}

\* C29: every callback invoked in a call belongs to a call that returns and is
\* of a kind this call invokes; the alarm passed is the alarm as the call
\* leaves it in the store and not as it was before: Triggered for
\* on_alarm_triggered_, Snoozed with snooze_count one higher for
\* on_alarm_snoozed_, Enabled or Disabled with snooze_count = 0 for
\* on_alarm_stopped_; and the callbacks of one call come in the order in which
\* the alarms are stored.
C29_CallbackOrdering ==
    [][mono' = mono =>
         /\ \A k \in 1..Len(events') :
              LET e == events'[k]
                  before == alarms[Pos(alarms, e.alarm.id)]
              IN  /\ last'.returned
                  /\ last'.op \in CallsEmitting(e.cb)
                  /\ Present(alarms, e.alarm.id)
                  /\ Present(alarms', e.alarm.id)
                  /\ e.alarm = alarms'[Pos(alarms', e.alarm.id)]
                  /\ e.alarm # before
                  /\ e.cb = "triggered" => e.alarm.status = kAlarmTriggered
                  /\ e.cb = "snoozed" =>
                       /\ e.alarm.status = kAlarmSnoozed
                       /\ e.alarm.snooze_count = before.snooze_count + 1
                  /\ e.cb = "stopped" =>
                       /\ e.alarm.status \in {kAlarmEnabled, kAlarmDisabled}
                       /\ e.alarm.snooze_count = 0
         /\ \A k \in 1..Len(events'), l \in 1..Len(events') :
              k < l => Pos(alarms, events'[k].alarm.id) < Pos(alarms, events'[l].alarm.id)]_vars

\* one call of CheckAlarms has invoked on_alarm_triggered_ for two alarms
C29_Witness ==
    /\ last.op = "CheckAlarms"
    /\ Len(events) = 2
    /\ events[1].alarm.id # events[2].alarm.id
    /\ events[1].cb = "triggered"
    /\ events[2].cb = "triggered"

(***************************************************************************)
(* C30                                                                     *)
(***************************************************************************)
\* C30: on the initialized store, with callbacks that do not call the store,
\* the last call has returned to its caller, and no call has locked
\* alarms_mutex_ a second time while it held it.
C30_DeadlockFreedom ==
    initialized_ => (last.returned /\ alarms_mutex_ # "deadlocked")

(***************************************************************************)
(* C31                                                                     *)
(***************************************************************************)
\* C31: a call that makes a ringing alarm (Triggered or Snoozed) Enabled or
\* Disabled, or takes it out of the store, invokes on_alarm_stopped_ for it.
C31_RingResolved ==
    [][(mono' = mono /\ on_alarm_stopped_) =>
         \A i \in 1..Len(alarms) :
            (/\ Ringing(alarms[i])
             /\ \/ ~Present(alarms', alarms[i].id)
                \/ alarms'[Pos(alarms', alarms[i].id)].status
                     \in {kAlarmEnabled, kAlarmDisabled})
              => Emitted(events', "stopped", alarms[i].id) # {}]_vars

(***************************************************************************)
(* C32                                                                     *)
(***************************************************************************)
\* the wall clock is not at the first second of a minute
MidMinute == wall % SecondsPerMinute # 0

(***************************************************************************)
(* The application adds, stops, modifies and enables alarms in the middle  *)
(* of a minute; the timer calls CheckAlarms at any time.  An alarm that is *)
(* Enabled at the first second of a minute has been so since the minute    *)
(* began.                                                                  *)
(***************************************************************************)
NextMinute ==
    \/ Initialize /\ UNCHANGED pc
    \/ \E t \in RingTimeInputs, repeat_mode \in ReloadModeInputs,
          label \in LabelInputs, music_name \in MusicInputs :
          /\ MidMinute
          /\ IdsLeft(MaxId, t[1], t[2])
          /\ AddAlarm(t[1], t[2], repeat_mode, label, music_name)
          /\ UNCHANGED pc
    \/ \E alarm_id \in 1..MaxId, enabled \in BOOLEAN :
          MidMinute /\ EnableAlarm(alarm_id, enabled) /\ UNCHANGED pc
    \/ \E alarm_id \in 1..MaxId, t \in ModifyTimeInputs, repeat_mode \in ReloadModeInputs,
          label \in LabelInputs, music_name \in MusicInputs :
          /\ MidMinute
          /\ ModifyAlarm(alarm_id, t[1], t[2], repeat_mode, label, music_name)
          /\ UNCHANGED pc
    \/ \E alarm_id \in 1..MaxId : MidMinute /\ StopAlarm(alarm_id) /\ UNCHANGED pc
    \/ CheckAlarms /\ UNCHANGED pc
    \/ AdvanceTime /\ UNCHANGED pc

SpecMinute == Configured /\ [][NextMinute]_vars

\* C32: a call of CheckAlarms at the first second of a minute, on an alarm
\* that is Enabled, whose hour * 60 + minute is this minute and that is Once
\* or active on this weekday, makes the alarm Triggered, whatever calls of
\* StopAlarm, ModifyAlarm and EnableAlarm came in the minutes before: were it
\* to stay Enabled, a run with this one call in the minute would miss it.
C32_NoMissedAlarm ==
    [][(CallOf("CheckAlarms") /\ initialized_ /\ ~MidMinute) =>
         \A i \in 1..Len(alarms) :
            (/\ alarms[i].status = kAlarmEnabled
             /\ alarms[i].hour * 60 + alarms[i].minute = (wall % 86400) \div 60
             /\ \/ alarms[i].repeat_mode = kAlarmOnce
                \/ ((wall \div 86400) % 7) \in Weekdays(alarms[i].weekdays_mask))
              => alarms'[i].status = kAlarmTriggered]_vars

(***************************************************************************)
(* C33                                                                     *)
(***************************************************************************)
\* C33: when StopAlarm has just stopped a repeating alarm whose ring began
\* with a fire in the present minute of the wall clock (the seconds since
\* last_triggered_time are not more than the seconds into the minute), the
\* call of CheckAlarms that follows in that minute does not fire the alarm
\* again, whatever the monotonic clock read at the fire.
C33_OneFirePerMinute ==
    [][(CallOf("CheckAlarms") /\ initialized_ /\ last.op = "StopAlarm") =>
         \A i \in 1..Len(alarms) :
            (/\ alarms[i].repeat_mode # kAlarmOnce
             /\ Emitted(events, "stopped", alarms[i].id) # {}
             /\ mono - alarms[i].last_triggered_time <= wall % 60)
              => /\ alarms'[i].status # kAlarmTriggered
                 /\ Emitted(events', "triggered", alarms[i].id) = {}]_vars

(***************************************************************************)
(* C34                                                                     *)
(***************************************************************************)
\* the snooze that SnoozeAlarm would start for this alarm ends before the
\* clock of the model stops
WithinHorizon(alarm_id) ==
    \A i \in 1..Len(alarms) :
       alarms[i].id = alarm_id =>
          mono + alarms[i].snooze_minutes * SecondsPerMinute <= MaxTicks * TimeStep

(***************************************************************************)
(* Two alarms ring and are snoozed, stopped and removed while the timer    *)
(* keeps calling CheckAlarms and the clocks run: a call of CheckAlarms     *)
(* that can run does run, and so does the clock until it stops.            *)
(***************************************************************************)
NextLive ==
    \/ Initialize /\ UNCHANGED pc
    \/ \E t \in RingTimeInputs, repeat_mode \in ReloadModeInputs,
          label \in LabelInputs, music_name \in MusicInputs :
          /\ IdsLeft(RingMaxId, t[1], t[2])
          /\ AddAlarm(t[1], t[2], repeat_mode, label, music_name)
          /\ UNCHANGED pc
    \/ \E alarm_id \in RingIdInputs : RemoveAlarm(alarm_id) /\ UNCHANGED pc
    \/ \E alarm_id \in RingIdInputs :
          WithinHorizon(alarm_id) /\ SnoozeAlarm(alarm_id) /\ UNCHANGED pc
    \/ \E alarm_id \in RingIdInputs : StopAlarm(alarm_id) /\ UNCHANGED pc
    \/ CheckAlarms /\ UNCHANGED pc
    \/ AdvanceTime /\ UNCHANGED pc

SpecLive ==
    /\ Configured
    /\ [][NextLive]_vars
    /\ WF_vars(CheckAlarms /\ UNCHANGED pc)
    /\ WF_vars(AdvanceTime /\ UNCHANGED pc)

\* the alarm with this id is in the store and Snoozed
IsSnoozed(alarm_id) ==
    \E i \in 1..Len(alarms) :
       alarms[i].id = alarm_id /\ alarms[i].status = kAlarmSnoozed

\* C34: while the timer keeps calling CheckAlarms and the clocks run, a Snoozed
\* alarm does not stay Snoozed for ever: unless it is stopped, enabled,
\* disabled or removed, CheckAlarms makes it Triggered again.
C34_SnoozeLiveness ==
    \A alarm_id \in RingIdInputs : IsSnoozed(alarm_id) ~> ~IsSnoozed(alarm_id)

(***************************************************************************)
(* C35                                                                     *)
(***************************************************************************)
\* the status with which the namespace would give back the alarm with this id
StoredStatus(st, alarm_id) ==
    LET loaded == LoadAlarmsFromStorage(st)
    IN  IF Present(loaded, alarm_id) THEN loaded[Pos(loaded, alarm_id)].status ELSE -1

\* C35: a call that invokes on_alarm_stopped_ for a Once alarm leaves it
\* Disabled; a Disabled alarm stays Disabled, with no call of
\* on_alarm_triggered_ for it, in every step but EnableAlarm(id, true), calls
\* of ModifyAlarm and of CheckAlarms included; and Cleanup followed by
\* Initialize gives it back Disabled: Cleanup stores a Once alarm that rang
\* or was Disabled as Disabled, the namespace is left alone while the manager
\* is not initialized, and Initialize loads the status that is stored.
C35_OncePerArming ==
    [][/\ \A i \in 1..Len(alarms) :
            LET a == alarms[i]
                after == Pos(alarms', a.id)
            IN  /\ (/\ a.repeat_mode = kAlarmOnce
                    /\ Emitted(events', "stopped", a.id) # {}
                    /\ mono' = mono
                    /\ after # 0)
                     => alarms'[after].status = kAlarmDisabled
                /\ (a.status = kAlarmDisabled /\ after # 0) =>
                     \/ /\ alarms'[after].status = kAlarmDisabled
                        /\ (mono' = mono /\ events' # events) =>
                             Emitted(events', "triggered", a.id) = {}
                     \/ /\ CallOf("EnableAlarm")
                        /\ last'.id = a.id
                        /\ alarms'[after].status = kAlarmEnabled
                /\ (/\ CallOf("Cleanup")
                    /\ a.repeat_mode = kAlarmOnce
                    /\ a.status # kAlarmEnabled)
                     => StoredStatus(storage', a.id) = kAlarmDisabled
       /\ (~initialized_ /\ ~initialized_') => storage' = storage
       /\ (~initialized_ /\ initialized_') =>
            \A k \in 1..Len(alarms') :
               StoredStatus(storage, alarms'[k].id) = kAlarmDisabled
                 => alarms'[k].status = kAlarmDisabled]_vars

\* a Once alarm has fired in this run and was stopped; it was moved to the
\* present minute, the re-fire guard has run out, and CheckAlarms has just
\* passed it over
C35_Witness ==
    /\ last.op = "CheckAlarms"
    /\ events = <<>>
    /\ \E i \in 1..Len(alarms) :
         /\ alarms[i].repeat_mode = kAlarmOnce
         /\ alarms[i].status = kAlarmDisabled
         /\ alarms[i].last_triggered_time > 0
         /\ mono - alarms[i].last_triggered_time >= 60
         /\ alarms[i].hour * 60 + alarms[i].minute = (wall % 86400) \div 60

(***************************************************************************)
(* C36                                                                     *)
(***************************************************************************)
\* C36: snooze_count counts the calls of SnoozeAlarm that returned true since
\* the normal fire of the ring, and never passes max_snooze_count: the normal
\* fire sets it to 0; a call of SnoozeAlarm that returns true finds the alarm
\* Triggered with snooze_count < max_snooze_count and adds 1; and as long as
\* the alarm rings, no other step, the snooze expiry of CheckAlarms included,
\* changes snooze_count or max_snooze_count.
C36_SnoozeBudgetPerRing ==
    [][\A i \in 1..Len(alarms) :
          LET a == alarms[i]
              after == Pos(alarms', a.id)
              b == alarms'[after]
              snoozed == /\ CallOf("SnoozeAlarm")
                         /\ last'.id = a.id
                         /\ last'.ret = BoolRet(TRUE)
                         /\ a.status = kAlarmTriggered
          IN  after # 0 =>
                /\ (a.status = kAlarmEnabled /\ b.status = kAlarmTriggered)
                     => b.snooze_count = 0
                /\ (CallOf("SnoozeAlarm") /\ last'.ret = BoolRet(TRUE) /\ last'.id = a.id) =>
                     /\ a.status = kAlarmTriggered
                     /\ a.snooze_count < a.max_snooze_count
                     /\ b.status = kAlarmSnoozed
                     /\ b.snooze_count = a.snooze_count + 1
                /\ (Ringing(a) /\ Ringing(b)) =>
                     /\ b.max_snooze_count = a.max_snooze_count
                     /\ b.snooze_count = a.snooze_count + (IF snoozed THEN 1 ELSE 0)
                     /\ b.snooze_count <= b.max_snooze_count]_vars

\* CheckAlarms has ended the last snooze that the alarm had: it rings again
\* with snooze_count at max_snooze_count
C36_Witness ==
    /\ last.op = "CheckAlarms"
    /\ \E i \in 1..Len(alarms) :
         /\ alarms[i].status = kAlarmTriggered
         /\ alarms[i].max_snooze_count > 0
         /\ alarms[i].snooze_count = alarms[i].max_snooze_count
         /\ Emitted(events, "triggered", alarms[i].id) # {}

(***************************************************************************)
(* C37                                                                     *)
(***************************************************************************)
\* the minutes from now, within the next eight days, after which a tick of
\* every minute fires this alarm, if the store is left as it is: the normal
\* fire check of CheckAlarms with the clocks moved on by that many minutes
FireDistances(alarm, w) ==
    {dist \in {d * MinutesPerDay + alarm.hour * 60 + alarm.minute
                 - GetCurrentTimeInMinutes(w) : d \in 0..7} :
        /\ dist > 0
        /\ ShouldFire(alarm, mono + dist * SecondsPerMinute, w + dist * SecondsPerMinute)}

\* the minutes after which the ticks fire this alarm first
FirstFire(alarm, w) ==
    CHOOSE dist \in FireDistances(alarm, w) :
       \A other \in FireDistances(alarm, w) : dist <= other

\* C37: GetNextAlarmInfo reports the alarm that the ticks fire first, the
\* earlier in the store of two that fire together, with the minutes until
\* then, and says that there is no active alarm only when the ticks will
\* fire none.
C37_AgreesWithScheduler ==
    [][(CallOf("GetNextAlarmInfo") /\ initialized_)
         => LET due == {i \in 1..Len(alarms) : FireDistances(alarms[i], wall) # {}}
            IN  IF due = {}
                THEN last'.value = NoActiveAlarmInfo
                ELSE LET win == CHOOSE i \in due :
                                   \A j \in due :
                                      \/ FirstFire(alarms[i], wall) < FirstFire(alarms[j], wall)
                                      \/ /\ FirstFire(alarms[i], wall) = FirstFire(alarms[j], wall)
                                         /\ i <= j
                     IN  last'.value = FormatNextAlarm(alarms[win],
                                                       FirstFire(alarms[win], wall))]_vars

(***************************************************************************)
(* C38                                                                     *)
(***************************************************************************)
\* Sunday 23:59:30
MidnightWall == 23 * 60 * SecondsPerMinute + 59 * SecondsPerMinute + TimeStep
\* the arguments the callers pass around midnight: <<hour, minute>>, repeat_mode
MidnightTimeInputs == {<<23, 59>>, <<0, 0>>}
MidnightModeInputs == {kAlarmWeekdays, kAlarmWeekends}

(***************************************************************************)
(* CheckAlarms as the timer thread runs it while other threads hold the    *)
(* mutex: the two clocks are read into locals, the thread waits for        *)
(* alarms_mutex_, and the loop reads the weekday and the monotonic clock   *)
(* again for each alarm it may fire.                                       *)
(***************************************************************************)
\* the body of the loop for one alarm, with the locals of lines 416-417 and
\* the clocks as they are when the loop runs
CheckAlarmSampled(alarm, current_time_seconds, current_time_minutes, now_seconds, w) ==
    IF alarm.status = kAlarmSnoozed /\ current_time_seconds >= alarm.next_snooze_time
    THEN [alarm EXCEPT !.status = kAlarmTriggered, !.next_snooze_time = 0]
    ELSE IF /\ alarm.status = kAlarmEnabled
            /\ alarm.hour * 60 + alarm.minute = current_time_minutes
            /\ ShouldTriggerToday(alarm, w)
            /\ ~RefireGuard(alarm, now_seconds)
    THEN [alarm EXCEPT !.status = kAlarmTriggered,
                       !.last_triggered_time = now_seconds,
                       !.snooze_count = 0]
    ELSE alarm

\* the calls of on_alarm_triggered_ of the loop: one for each alarm it changed
RECURSIVE SampledEvents(_, _, _, _)
SampledEvents(before, after, i, registered) ==
    IF i > Len(before) THEN <<>>
    ELSE (IF after[i] # before[i] THEN Emit(registered, "triggered", after[i]) ELSE <<>>)
         \o SampledEvents(before, after, i + 1, registered)

\* if (!initialized_) return; then lines 416-417
CheckAlarmsSample ==
    /\ pc.CheckAlarms = "idle"
    /\ IF ~initialized_
       THEN /\ last' = Returned("CheckAlarms", 0, 0)
            /\ events' = <<>>
            /\ UNCHANGED pc
       ELSE /\ pc' = [pc EXCEPT !.CheckAlarms = "lock",
                                !.current_time_seconds = mono,
                                !.current_time_minutes = GetCurrentTimeInMinutes(wall)]
            /\ UNCHANGED <<last, events>>
    /\ UNCHANGED <<alarms, next_alarm_id_, initialized_, alarms_mutex_, storage>>
    /\ StepFrame

\* the lock_guard of line 419, the loop and the return
CheckAlarmsLoop ==
    /\ pc.CheckAlarms = "lock"
    /\ Unlocked
    /\ LET after == [i \in 1..Len(alarms) |->
                        CheckAlarmSampled(alarms[i], pc.current_time_seconds,
                                          pc.current_time_minutes, mono, wall)]
       IN  /\ alarms' = after
           /\ events' = SampledEvents(alarms, after, 1, on_alarm_triggered_)
    /\ last' = Returned("CheckAlarms", 0, 0)
    /\ pc' = [pc EXCEPT !.CheckAlarms = "idle"]
    /\ UNCHANGED <<next_alarm_id_, initialized_, alarms_mutex_, storage>>
    /\ StepFrame

\* the application has registered its callbacks; it is Sunday, half a minute
\* before midnight
MidnightInit ==
    /\ alarms = <<>>
    /\ next_alarm_id_ = InitialNextId
    /\ initialized_ = FALSE
    /\ default_snooze_minutes_ \in ConfiguredSnoozeMinutes
    /\ default_max_snooze_count_ \in ConfiguredMaxSnoozeCount
    /\ on_alarm_triggered_ = TRUE
    /\ on_alarm_snoozed_ = TRUE
    /\ on_alarm_stopped_ = TRUE
    /\ alarms_mutex_ = "unlocked"
    /\ storage = NoKeys
    /\ mono = 0
    /\ wall = MidnightWall
    /\ last = Returned("constructor", 0, 0)
    /\ events = <<>>
    /\ pc = NoCallInFlight

\* time passes, also while a thread is inside CheckAlarms
AdvanceMidnight ==
    /\ mono < MaxTicks * TimeStep
    /\ mono' = mono + TimeStep
    /\ wall' = wall + TimeStep
    /\ UNCHANGED <<alarms, next_alarm_id_, initialized_, alarms_mutex_, storage, config,
                   callbacks, last, events, pc>>

NextMidnight ==
    \/ Initialize /\ UNCHANGED pc
    \/ \E t \in MidnightTimeInputs, repeat_mode \in MidnightModeInputs,
          label \in LabelInputs, music_name \in MusicInputs :
          /\ IdsLeft(RingMaxId, t[1], t[2])
          /\ AddAlarm(t[1], t[2], repeat_mode, label, music_name)
          /\ UNCHANGED pc
    \/ \E alarm_id \in RingIdInputs : StopAlarm(alarm_id) /\ UNCHANGED pc
    \/ CheckAlarmsSample
    \/ CheckAlarmsLoop
    \/ AdvanceMidnight

SpecMidnight == MidnightInit /\ [][NextMidnight]_vars

\* C38: when a call of CheckAlarms fires a repeating alarm, the wall clock
\* showed, at the time the call began or at the time it ends, both the
\* minute of the alarm and a weekday of its mask.  (The clock of the model
\* stands still or moves by half a minute at a time, and the call lasts at
\* most until the clock stops, so the instants during the call are the
\* walls from the one sampled to the present one.)
C38_ConsistentTimeSample ==
    [][(pc.CheckAlarms = "lock" /\ pc'.CheckAlarms = "idle") =>
         \A i \in 1..Len(alarms) :
            (/\ alarms[i].status = kAlarmEnabled
             /\ alarms'[i].status = kAlarmTriggered
             /\ alarms[i].repeat_mode # kAlarmOnce)
              => \E instant \in {wall - k * TimeStep : k \in 0..MaxTicks} :
                    /\ instant >= wall - (mono - pc.current_time_seconds)
                    /\ alarms[i].hour * 60 + alarms[i].minute = (instant % 86400) \div 60
                    /\ ((instant \div 86400) % 7) \in Weekdays(alarms[i].weekdays_mask)]_vars

(***************************************************************************)
(* C39                                                                     *)
(***************************************************************************)
\* C39: a call of AddAlarm, StopAlarm or CheckAlarms of another thread that
\* runs after Cleanup has done its save (SaveAlarmsToStorage has returned,
\* alarms_.clear() or the reset of initialized_ is still to come) has no
\* effect on the store, the namespace or the callbacks, and AddAlarm returns
\* -1.
C39_TeardownAtomic ==
    [][(/\ pc.Cleanup \in {"clear", "finish"}
        /\ pc' = pc
        /\ mono' = mono
        /\ last'.op \in {"AddAlarm", "StopAlarm", "CheckAlarms"})
         => /\ alarms' = alarms
            /\ storage' = storage
            /\ events' = <<>>
            /\ last'.op = "AddAlarm" => last'.ret = -1]_vars

============================================================================
